---- MODULE Spec2Model ----
(***************************************************************************)
(* Home Canvas: the App component's scene state, its undo/redo history and *)
(* the asynchronous scene mutations (place product, modify surface,        *)
(* redesign).  Every handler of App is one action; an awaited generator    *)
(* call is an entry of `calls` between the handler's first half (submit)   *)
(* and its second half (the code after the await, run when the promise     *)
(* settles).  Files are identified by a number: every File object the      *)
(* program creates (an upload, dataURLtoFile) is a fresh one.  State that   *)
(* is only displayed and read by no handler (debugImageUrl, debugPrompt,   *)
(* loadingMessageIndex, activeTab) is left out.                            *)
(***************************************************************************)
EXTENDS Integers, Sequences, FiniteSets, TLC

\* ------------------------------------------------------------------ bounds
\* File objects created in this session (scene uploads and generator results).
MaxNewFiles == 3
\* Promises outstanding at the same time.
MaxCalls == 2
\* Length of the product list.
MaxProducts == 1
\* Length of the product list when products are added at any clock reading.
MaxListed == 2
\* Drop points tried in a container: one every containerWidth / PointGridX
\* pixels across and every containerHeight / PointGridY pixels down, the
\* borders included.
PointGridX == 4
PointGridY == 4

\* ------------------------------------------------------- program constants
\* undoHistoryRef keeps at most this many files (the literal 10 of the code).
MAX_HISTORY == 10

\* ------------------------------------------------------------------ values
\* null for a File | null / number | null state.
NoFile == 0
\* null for the error message.
NoError == "null"
\* Date.now() read by the n-th handleAddProduct: the clock only goes forward.
ProductId(n) == n
\* The first File id handed out in this session; smaller ids are files of the
\* restored session.
FirstNewFile == MAX_HISTORY + 3
LastNewFile == FirstNewFile + MaxNewFiles - 1

\* Texts typed into the redesign textarea: empty, blank, and a real instruction.
Prompts == {"", " ", "minimalist"}
\* String.prototype.trim on those texts.
Trim(s) == IF s = " " THEN "" ELSE s

\* Placement requests raised by a drop: the container point and the
\* percentages computed for it.
PlacementRequests ==
    { [containerX |-> 400, containerY |-> 225, relativeX |-> 50, relativeY |-> 50] }
PlacementStyles == {"on_surface", "against_wall"}

\* The geometry a drop is resolved in: the drop zone's box (getBoundingClientRect)
\* and the scene image's natural size, in whole pixels.
Layout(containerWidth, containerHeight, naturalWidth, naturalHeight) ==
    [ containerWidth |-> containerWidth, containerHeight |-> containerHeight,
      naturalWidth |-> naturalWidth, naturalHeight |-> naturalHeight ]
\* Images narrower than, wider than and as wide as their container.
Layouts ==
    { Layout(800, 400, 900, 900), Layout(800, 450, 1600, 900),
      Layout(400, 800, 900, 900), Layout(300, 200, 1000, 300),
      Layout(640, 480, 333, 500), Layout(15, 11, 15, 11), Layout(7, 25, 7, 25),
      Layout(1024, 576, 1920, 1080), Layout(333, 500, 640, 480),
      Layout(100, 100, 3, 7) }
DefaultLayout == Layout(800, 450, 1600, 900)
\* Container points tried besides those of the grid.
ScenarioPoints == { << 150, 0 >> }
\* The container points (touch.clientX - containerRect.left, touch.clientY -
\* containerRect.top) a touch may end at in layout l.
DropPoints(l) ==
    { << (i * l.containerWidth) \div PointGridX, (j * l.containerHeight) \div PointGridY >> :
        i \in 0..PointGridX, j \in 0..PointGridY }
      \cup { p \in ScenarioPoints : p[1] <= l.containerWidth /\ p[2] <= l.containerHeight }
SurfaceTypes == {"color", "texture"}
\* Values handed to handleSurfaceModificationSubmit.
ModificationValues == {"beige"}

ErrSelectProduct == "Please select a product before placing it."
ErrGenerateImage == "Failed to generate the image."
ErrGenerateDesign == "Failed to generate the design."
ErrModifySurface == "Failed to modify the surface."
ErrDesignInput == "Please provide a scene image and a design instruction."
ErrDefaultImages == "Could not load default images."
ErrRoomInput == "Please provide a room image and a design instruction."

\* How an awaited generator promise settles: it resolves with a data URL that
\* dataURLtoFile accepts, resolves with one it throws on, or rejects.
Outcomes == {"ok", "bad_data_url", "rejected"}

VARIABLES
    products,                 \* Product[]: the ids, in list order
    productFiles,             \* Map<number, File>: its key set
    activeProductId,          \* number | null
    sceneImage,               \* File | null
    isLoading,                \* the busy flag
    error,                    \* string | null
    persistedOrbPosition,     \* {x, y} | null, as a set of at most one point
    sceneDesignPrompt,
    placementContextMenu,     \* the open menu's request, as a set of at most one
    surfaceModificationState, \* {type, position} | null, as a set of at most one
    canUndo,
    canRedo,
    undoHistory,              \* undoHistoryRef.current
    redoHistory,              \* redoHistoryRef.current
    calls,                    \* promises awaited by handlers, oldest first
    nextFile,                 \* the id of the next File object created
    lastOp,                   \* the last step, when it settled a promise, went
                              \* through the history, was a drag start that
                              \* was ignored or ended a touch drag; "other"
                              \* otherwise
    sceneLayout,              \* the drop zone's box and the image's natural size
    lastDrop,                 \* the touch drop last resolved, as a set of at
                              \* most one: its point and what was computed
    isTouchDragging,          \* a touch drag is in progress
    touchGhostPosition,       \* {x, y} | null, as a set of at most one point
    isHoveringDropZone,
    touchOrbPosition,         \* {x, y} | null, as a set of at most one point
    bodyOverflow,             \* document.body.style.overflow: "hidden", or
                              \* "auto" for a value that lets the page scroll
    nativeDrag,               \* the browser's drag-and-drop session begun on a
                              \* product card is in progress
    silhouettes,              \* the ids of the products that have a silhouetteUrl
    silhouetteCalls,          \* the products whose generateProductSilhouette
                              \* promise is awaited
    interiorDesigner          \* the state of the InteriorDesigner component,
                              \* with its generateInteriorDesign calls in flight

vars == << products, productFiles, activeProductId, sceneImage, isLoading, error,
           persistedOrbPosition, sceneDesignPrompt,
           placementContextMenu, surfaceModificationState, canUndo, canRedo,
           undoHistory, redoHistory, calls, nextFile, lastOp, sceneLayout,
           lastDrop, isTouchDragging, touchGhostPosition, isHoveringDropZone,
           touchOrbPosition, bodyOverflow, nativeDrag, silhouettes,
           silhouetteCalls, interiorDesigner >>

\* The state the history model is about.
history == << sceneImage, undoHistory, redoHistory >>
flags == << canUndo, canRedo >>
productVars == << products, productFiles, activeProductId >>
menuVars == << placementContextMenu, surfaceModificationState >>
\* What no handler of the Product Placement tab writes.
layoutVars == << sceneLayout, interiorDesigner >>
dropVars == << layoutVars, lastDrop >>
touchVars == << isTouchDragging, touchGhostPosition, isHoveringDropZone,
               touchOrbPosition >>
dragVars == << touchVars, bodyOverflow, nativeDrag >>
silhouetteVars == << silhouettes, silhouetteCalls >>

\* ----------------------------------------------------------------- helpers
\* const activeProduct = products.find(p => p.id === activeProductId) || null
HasActiveProduct ==
    \E i \in 1..Len(products) : products[i] = activeProductId

\* The generator calls that mutate the scene.
MutationKinds == {"place", "design", "surface"}
MutationCalls == { i \in 1..Len(calls) : calls[i].kind \in MutationKinds }

RemoveAt(s, i) == [ j \in 1..(Len(s) - 1) |-> IF j < i THEN s[j] ELSE s[j + 1] ]

\* The entries of a stack, as a set.
Entries(s) == { s[j] : j \in 1..Len(s) }

\* A stack without its top entry (Array.prototype.pop).
Pop(s) == SubSeq(s, 1, Len(s) - 1)
Top(s) == s[Len(s)]

\* The push without the shift that caps the stack.
PushUndoUncapped(stack, file) == Append(stack, file)

\* undoHistoryRef.current.push(previousScene);
\* if (undoHistoryRef.current.length > 10) undoHistoryRef.current.shift();
PushUndo(stack, file) ==
    LET pushed == Append(stack, file)
    IN  IF Len(pushed) > MAX_HISTORY THEN Tail(pushed) ELSE pushed

\* ----------------------------------------------- the history, as a value
\* The three parts of the history as one record, and what the code after a
\* successful await, handleUndo and handleRedo do to them.
Hist(scene, undo, redo) == [ scene |-> scene, undo |-> undo, redo |-> redo ]

\* What the code after a successful await would do without its
\* `redoHistoryRef.current = []`.
CommitHistKeepsRedo(h, previousScene, newSceneFile) ==
    Hist(newSceneFile, PushUndo(h.undo, previousScene), h.redo)

\* What the code after a successful await would do if it pushed the new scene
\* instead of the captured one.
CommitHistPushesResult(h, previousScene, newSceneFile) ==
    Hist(newSceneFile, PushUndo(h.undo, newSceneFile), << >>)

\* setSceneImage(newSceneFile); push previousScene (capped); redo = [].
CommitHist(h, previousScene, newSceneFile) ==
    Hist(newSceneFile, PushUndo(h.undo, previousScene), << >>)

\* handleUndo without its `redoHistoryRef.current.push(sceneImage)`.
UndoHistDropsCurrent(h) == Hist(Top(h.undo), Pop(h.undo), h.redo)

\* previousScene = undo.pop(); redo.push(sceneImage); setSceneImage(previousScene)
UndoHist(h) == Hist(Top(h.undo), Pop(h.undo), Append(h.redo, h.scene))

\* A redo that would forget the entries under the one it pops.
RedoHistEmptiesRedo(h) == Hist(Top(h.redo), Append(h.undo, h.scene), << >>)

\* handleRedo without its `undoHistoryRef.current.push(sceneImage)`.
RedoHistDropsCurrent(h) == Hist(Top(h.redo), h.undo, Pop(h.redo))

\* nextScene = redo.pop(); undo.push(sceneImage); setSceneImage(nextScene)
RedoHist(h) == Hist(Top(h.redo), Append(h.undo, h.scene), Pop(h.redo))

\* ------------------------------------------------------------------- mount
\* The history saved by a session that uploaded a scene, made n commits one
\* after the other and then k undos; its files are numbered upwards and the
\* last one created is `last`.
RECURSIVE SavedHist(_, _, _)
SavedHist(n, k, last) ==
    IF k > 0 THEN UndoHist(SavedHist(n, k - 1, last))
    ELSE IF n > 0 THEN LET before == SavedHist(n - 1, 0, last - 1)
                       IN  CommitHist(before, before.scene, last)
    ELSE Hist(last, << >>, << >>)

\* No saved state: the useState/useRef initial values.
InitFresh ==
    /\ products = << >>
    /\ productFiles = {}
    /\ activeProductId = NoFile
    /\ sceneImage = NoFile
    /\ undoHistory = << >>
    /\ redoHistory = << >>
    /\ canUndo = FALSE
    /\ canRedo = FALSE

\* Sessions found in localStorage at mount: a session that uploaded a scene,
\* made n commits and then k undos, as << n, k >>.  This one leaves the undo
\* stack one entry below its cap, with one entry on the redo stack.
SavedSessions ==
    { << MAX_HISTORY, 1 >> }

\* The mount effect restores the products, the scene and both stacks a session
\* saved, and sets each flag when its restored stack is not empty.
InitRestored ==
    \E s \in SavedSessions :
      /\ LET h == SavedHist(s[1], s[2], s[1] + 1)
         IN  /\ sceneImage = h.scene
             /\ undoHistory = h.undo
             /\ redoHistory = h.redo
             /\ canUndo = (Len(h.undo) > 0)
             /\ canRedo = (Len(h.redo) > 0)
      /\ products = << 1 >>
      /\ productFiles = {1}
      /\ activeProductId = 1

\* The rest of the state after construction: the useState initial values.
\* The InteriorDesigner component as mounted: the initial values of its five
\* useState hooks, no call in flight, no URL generated yet.
InteriorDesignerMounted ==
    [ roomImage |-> NoFile, designPrompt |-> "", isLoading |-> FALSE,
      error |-> NoError, resultImageUrl |-> NoFile, calls |-> << >>,
      nextUrl |-> NoFile + 1 ]

InitRest ==
    /\ interiorDesigner = InteriorDesignerMounted
    /\ isLoading = FALSE
    /\ error = NoError
    /\ persistedOrbPosition = {}
    /\ sceneDesignPrompt = ""
    /\ placementContextMenu = {}
    /\ surfaceModificationState = {}
    /\ calls = << >>
    /\ nextFile = FirstNewFile
    /\ lastOp = "mount"
    /\ lastDrop = {}
    /\ isTouchDragging = FALSE
    /\ touchGhostPosition = {}
    /\ isHoveringDropZone = FALSE
    /\ touchOrbPosition = {}
    /\ bodyOverflow = "auto"
    /\ nativeDrag = FALSE
    /\ silhouettes = {}
    /\ silhouetteCalls = {}

\* The first visit: nothing is saved.
Init == InitFresh /\ InitRest /\ sceneLayout = DefaultLayout

\* A later visit: a saved session is restored.
InitSaved == InitRestored /\ InitRest /\ sceneLayout = DefaultLayout

\* A session saved after a single commit: scene 2 over the initial scene 1.
ShortSessions ==
    { << 1, 0 >> }

\* What the mount effect restores from the saved session s.
RestoredSession(s) ==
    /\ LET h == SavedHist(s[1], s[2], s[1] + 1)
       IN  /\ sceneImage = h.scene
           /\ undoHistory = h.undo
           /\ redoHistory = h.redo
           /\ canUndo = (Len(h.undo) > 0)
           /\ canRedo = (Len(h.redo) > 0)
    /\ products = << 1 >>
    /\ productFiles = {1}
    /\ activeProductId = 1

\* A short session saved without activeProductId: nothing is selected.
UnselectedSession ==
    /\ LET h == SavedHist(1, 0, 2)
       IN  /\ sceneImage = h.scene
           /\ undoHistory = h.undo
           /\ redoHistory = h.redo
           /\ canUndo = (Len(h.undo) > 0)
           /\ canRedo = (Len(h.redo) > 0)
    /\ products = << 1 >>
    /\ productFiles = {1}
    /\ activeProductId = NoFile

\* A session saved with a selected product and no scene.
ProductOnlySession ==
    /\ products = << 1 >>
    /\ productFiles = {1}
    /\ activeProductId = 1
    /\ sceneImage = NoFile
    /\ undoHistory = << >>
    /\ redoHistory = << >>
    /\ canUndo = FALSE
    /\ canRedo = FALSE

\* A first visit, or a later one that finds a product and no scene, a scene
\* and no selection, or a scene and a selected product.
InitSubmit ==
    /\ \/ InitFresh
       \/ ProductOnlySession
       \/ UnselectedSession
       \/ \E s \in ShortSessions : RestoredSession(s)
    /\ InitRest
    /\ sceneLayout = DefaultLayout

\* A later visit that restores a short session.
InitShort ==
    (\E s \in ShortSessions : RestoredSession(s)) /\ InitRest /\ sceneLayout = DefaultLayout

\* A short session saved with two products in the list and the first selected.
InitTwoProducts ==
    /\ LET h == SavedHist(1, 0, 2)
       IN  /\ sceneImage = h.scene
           /\ undoHistory = h.undo
           /\ redoHistory = h.redo
           /\ canUndo = (Len(h.undo) > 0)
           /\ canRedo = (Len(h.redo) > 0)
    /\ products = << 1, 2 >>
    /\ productFiles = {1, 2}
    /\ activeProductId = 1
    /\ InitRest
    /\ sceneLayout = DefaultLayout

\* A short session saved with or without a selection, in a layout with
\* padding or in one without.
DragLayouts == { DefaultLayout, Layout(800, 400, 900, 900) }
InitDrag ==
    /\ (\E s \in ShortSessions : RestoredSession(s)) \/ UnselectedSession
    /\ InitRest
    /\ sceneLayout \in DragLayouts

\* A restored short session, in any of the layouts.
InitMapper ==
    (\E s \in ShortSessions : RestoredSession(s)) /\ InitRest /\ sceneLayout \in Layouts

\* ---------------------------------------------------- JavaScript numbers
\* The mapper computes with JavaScript numbers: IEEE 754 binary64, every
\* operation rounded to the nearest value, ties to the even significand.  A
\* number is [neg, m, e] with value (-1)^neg * m * 2^e, where m is a natural
\* of exactly Precision bits, or it is FZero.  A natural below 2^72 is written
\* as four limbs << a3, a2, a1, a0 >>, each below Limb, most significant first.
\* The operations are functions, so that each is applied to values.
Precision == 53
LimbBits == 18
Limb == 2^LimbBits
Limbs == 4
GuardBits == 3
QuotientBits == 57

BigNat == Seq(Int)
Number == [ neg : BOOLEAN, m : BigNat, e : Int ]

\* Carries propagated upwards.
Big[a3 \in Int, a2 \in Int, a1 \in Int, a0 \in Int] ==
    LET t1 == a1 + (a0 \div Limb)
        t2 == a2 + (t1 \div Limb)
    IN  << a3 + (t2 \div Limb), t2 % Limb, t1 % Limb, a0 % Limb >>

BigZero == << 0, 0, 0, 0 >>
BigOne == << 0, 0, 0, 1 >>
BigAdd[x \in BigNat, y \in BigNat] ==
    Big[x[1] + y[1], x[2] + y[2], x[3] + y[3], x[4] + y[4]]
BigLess[x \in BigNat, y \in BigNat] ==
    \E i \in 1..Limbs : x[i] < y[i] /\ \A j \in 1..(i - 1) : x[j] = y[j]

\* x - y for x >= y.
BigSub[x \in BigNat, y \in BigNat] ==
    LET d4 == x[4] - y[4]
        b4 == IF d4 < 0 THEN 1 ELSE 0
        d3 == x[3] - y[3] - b4
        b3 == IF d3 < 0 THEN 1 ELSE 0
        d2 == x[2] - y[2] - b3
        b2 == IF d2 < 0 THEN 1 ELSE 0
    IN  << x[1] - y[1] - b2, d2 + b2 * Limb, d3 + b3 * Limb, d4 + b4 * Limb >>

\* x * k for a natural k below 2^11.
BigTimes[x \in BigNat, k \in Nat] == Big[x[1] * k, x[2] * k, x[3] * k, x[4] * k]
BigOdd(x) == x[4] % 2 = 1

IntBits[n \in Nat] == IF n = 0 THEN 0 ELSE 1 + IntBits[n \div 2]

\* The number of bits of x.
BigBits[x \in BigNat] ==
    IF x = BigZero THEN 0
    ELSE LET top == CHOOSE i \in 1..Limbs :
                      x[i] # 0 /\ \A j \in 1..(i - 1) : x[j] = 0
         IN  (Limbs - top) * LimbBits + IntBits[x[top]]

\* The i-th limb of x, 0 outside 1..Limbs.
LimbAt(x, i) == IF i >= 1 /\ i <= Limbs THEN x[i] ELSE 0

\* The i-th limb of x * 2^(limbs * LimbBits + bits).
LimbShiftedLeft[x \in BigNat, i \in Int, limbs \in Nat, bits \in Nat] ==
    (LimbAt(x, i + limbs) % 2^(LimbBits - bits)) * 2^bits
      + (LimbAt(x, i + limbs + 1) \div 2^(LimbBits - bits))

\* x * 2^k, for a result below 2^72.
ShiftLeft[x \in BigNat, k \in Nat] ==
    << LimbShiftedLeft[x, 1, k \div LimbBits, k % LimbBits],
       LimbShiftedLeft[x, 2, k \div LimbBits, k % LimbBits],
       LimbShiftedLeft[x, 3, k \div LimbBits, k % LimbBits],
       LimbShiftedLeft[x, 4, k \div LimbBits, k % LimbBits] >>

\* The i-th limb of x \div 2^(limbs * LimbBits + bits).
LimbShiftedRight[x \in BigNat, i \in Int, limbs \in Nat, bits \in Nat] ==
    (LimbAt(x, i - limbs) \div 2^bits)
      + (LimbAt(x, i - limbs - 1) % 2^bits) * 2^(LimbBits - bits)

\* x shifted right by k bits, and whether a 1 was shifted out (or `lost` was
\* already set).
ShiftRight[x \in BigNat, k \in Nat, lost \in BOOLEAN] ==
    [ n |-> << LimbShiftedRight[x, 1, k \div LimbBits, k % LimbBits],
               LimbShiftedRight[x, 2, k \div LimbBits, k % LimbBits],
               LimbShiftedRight[x, 3, k \div LimbBits, k % LimbBits],
               LimbShiftedRight[x, 4, k \div LimbBits, k % LimbBits] >>,
      lost |-> \/ lost
               \/ \E i \in 1..Limbs : i > Limbs - (k \div LimbBits) /\ x[i] # 0
               \/ LimbAt(x, Limbs - (k \div LimbBits)) % 2^(k % LimbBits) # 0 ]

BigHalf(x) == ShiftRight[x, 1, FALSE].n
Shifted == [ n : BigNat, lost : BOOLEAN ]

FZero == [ neg |-> FALSE, m |-> BigZero, e |-> 0 ]

\* m rounded to Precision bits, given its number of bits (more than
\* Precision) and whether a fraction below it is not zero: to nearest, ties
\* to even.
RoundBits[neg \in BOOLEAN, upTo \in Shifted, e \in Int] ==
    LET kept == BigHalf(upTo.n)
        up == BigOdd(upTo.n) /\ (upTo.lost \/ BigOdd(kept))
        r == IF up THEN BigAdd[kept, BigOne] ELSE kept
    IN  IF BigBits[r] > Precision
        THEN [ neg |-> neg, m |-> BigHalf(r), e |-> e + 1 ]
        ELSE [ neg |-> neg, m |-> r, e |-> e ]

\* The number (-1)^neg * (m + f) * 2^e rounded, for m of `bits` bits.
Normalised[neg \in BOOLEAN, m \in BigNat, e \in Int, sticky \in BOOLEAN, bits \in Nat] ==
    IF bits <= Precision
    THEN [ neg |-> neg, m |-> ShiftLeft[m, Precision - bits], e |-> e - (Precision - bits) ]
    ELSE RoundBits[neg, ShiftRight[m, bits - Precision - 1, sticky], e + bits - Precision]

\* The number nearest to (-1)^neg * (m + f) * 2^e, where 0 <= f < 1 and
\* `sticky` tells whether f > 0.
RoundToNumber[neg \in BOOLEAN, m \in BigNat, e \in Int, sticky \in BOOLEAN] ==
    IF m = BigZero THEN FZero ELSE Normalised[neg, m, e, sticky, BigBits[m]]

\* A whole number of the source (a pixel count, 2, 100) as a number: exact.
FromInt[n \in Int] ==
    RoundToNumber[n < 0, Big[0, 0, 0, IF n < 0 THEN -n ELSE n], 0, FALSE]

\* |x| < |y| for x, y # 0
MagnitudeLess(x, y) == x.e < y.e \/ (x.e = y.e /\ BigLess[x.m, y.m])

\* x < y
FLess[x \in Number, y \in Number] ==
    IF x.m = BigZero THEN y.m # BigZero /\ ~y.neg
    ELSE IF y.m = BigZero THEN x.neg
    ELSE IF x.neg # y.neg THEN x.neg
    ELSE IF x.neg THEN MagnitudeLess(y, x) ELSE MagnitudeLess(x, y)

\* Long division by d, bit by bit: k more bits of the quotient appended to q,
\* r being what is left of the dividend (r < 2 * d).
DivBits[r \in BigNat, q \in BigNat, d \in BigNat, k \in Nat] ==
    IF k = 0 THEN [ q |-> q, r |-> r ]
    ELSE IF BigLess[r, d] THEN DivBits[BigTimes[r, 2], BigTimes[q, 2], d, k - 1]
    ELSE DivBits[BigTimes[BigSub[r, d], 2], BigAdd[BigTimes[q, 2], BigOne], d, k - 1]

Divided == [ q : BigNat, r : BigNat ]

\* The rounded quotient, from the digits and the rest of the long division.
Quotient[neg \in BOOLEAN, d \in Divided, e \in Int] ==
    RoundToNumber[neg, d.q, e, d.r # BigZero]

\* x / y for y # 0
FDiv[x \in Number, y \in Number] ==
    IF x.m = BigZero THEN FZero
    ELSE Quotient[x.neg # y.neg, DivBits[x.m, BigZero, y.m, QuotientBits],
                  x.e - y.e - (QuotientBits - 1)]

\* x * k for a whole number k with 0 <= k < 2^11 (a pixel count, or 100)
FTimesInt[x \in Number, k \in Nat] ==
    IF k = 0 THEN FZero ELSE RoundToNumber[x.neg, BigTimes[x.m, k], x.e, FALSE]

\* The shifted significand with the bits shifted out jammed into its last bit.
Jam[sh \in Shifted] ==
    IF sh.lost /\ ~BigOdd(sh.n) THEN BigAdd[sh.n, BigOne] ELSE sh.n

\* hi + lo for hi.e >= lo.e, neither zero; a and b are their significands
\* aligned at the exponent e.
AddAligned[hi \in Number, lo \in Number, a \in BigNat, b \in BigNat, e \in Int] ==
    IF hi.neg = lo.neg THEN RoundToNumber[hi.neg, BigAdd[a, b], e, FALSE]
    ELSE IF BigLess[a, b] THEN RoundToNumber[lo.neg, BigSub[b, a], e, FALSE]
    ELSE RoundToNumber[hi.neg, BigSub[a, b], e, FALSE]

AddOrdered[hi \in Number, lo \in Number] ==
    AddAligned[hi, lo, ShiftLeft[hi.m, GuardBits],
               Jam[ShiftRight[ShiftLeft[lo.m, GuardBits], hi.e - lo.e, FALSE]],
               hi.e - GuardBits]

\* x + y
FAdd[x \in Number, y \in Number] ==
    IF x.m = BigZero THEN y
    ELSE IF y.m = BigZero THEN x
    ELSE IF x.e >= y.e THEN AddOrdered[x, y] ELSE AddOrdered[y, x]

\* x - y
FSub[x \in Number, y \in Number] ==
    IF y.m = BigZero THEN x ELSE FAdd[x, [ y EXCEPT !.neg = ~y.neg ]]

\* ------------------------------------------------------ coordinate mapper
\* The computation of handlePlacement (and of handleTouchEnd, which repeats it)
\* for a container box, the image's natural size and a container-local point,
\* all in whole pixels: the rendered rectangle of the object-contain image, its
\* offsets, whether the point is taken, and the percentages passed on.  Each
\* group of the source's constants is one function of the values before it.
Pixels == Nat

\* renderedWidth and renderedHeight from the two aspect ratios.
Rendered[containerWidth \in Pixels, containerHeight \in Pixels, imageAspectRatio \in Number, containerAspectRatio \in Number] ==
    IF FLess[containerAspectRatio, imageAspectRatio]
    THEN [ wider |-> TRUE,
           renderedWidth |-> FromInt[containerWidth],
           renderedHeight |-> FDiv[FromInt[containerWidth], imageAspectRatio] ]
    ELSE [ wider |-> FALSE,
           renderedWidth |-> FTimesInt[imageAspectRatio, containerHeight],
           renderedHeight |-> FromInt[containerHeight] ]

RenderedBox == [ wider : BOOLEAN, renderedWidth : Number, renderedHeight : Number ]
OffsetPair == [ offsetX : Number, offsetY : Number ]
ImageLocal == [ imageX : Number, imageY : Number ]

\* offsetX and offsetY of the rendered rectangle in the container.
Offsets[containerWidth \in Pixels, containerHeight \in Pixels, r \in RenderedBox] ==
    [ offsetX |-> FDiv[FSub[FromInt[containerWidth], r.renderedWidth], FromInt[2]],
      offsetY |-> FDiv[FSub[FromInt[containerHeight], r.renderedHeight], FromInt[2]] ]

\* imageX and imageY of the point.
ImagePoint[pointX \in Pixels, pointY \in Pixels, o \in OffsetPair] ==
    [ imageX |-> FSub[FromInt[pointX], o.offsetX],
      imageY |-> FSub[FromInt[pointY], o.offsetY] ]

\* The bounds check and the percentages.
Percentages[r \in RenderedBox, o \in OffsetPair, p \in ImageLocal] ==
    LET outside == \/ FLess[p.imageX, FZero]
                   \/ FLess[r.renderedWidth, p.imageX]
                   \/ FLess[p.imageY, FZero]
                   \/ FLess[r.renderedHeight, p.imageY]
    IN  [ wider |-> r.wider,
          renderedWidth |-> r.renderedWidth,
          renderedHeight |-> r.renderedHeight,
          offsetX |-> o.offsetX,
          offsetY |-> o.offsetY,
          imageX |-> p.imageX,
          imageY |-> p.imageY,
          placed |-> ~outside,
          xPercent |-> IF outside THEN FZero
                       ELSE FTimesInt[FDiv[p.imageX, r.renderedWidth], 100],
          yPercent |-> IF outside THEN FZero
                       ELSE FTimesInt[FDiv[p.imageY, r.renderedHeight], 100] ]

Located[pointX \in Pixels, pointY \in Pixels, r \in RenderedBox, o \in OffsetPair] ==
    Percentages[r, o, ImagePoint[pointX, pointY, o]]

Placed[containerWidth \in Pixels, containerHeight \in Pixels, pointX \in Pixels, pointY \in Pixels, r \in RenderedBox] ==
    Located[pointX, pointY, r, Offsets[containerWidth, containerHeight, r]]

\* A mapper that takes every point, those in the padding too.
MapToImageUnclipped(containerWidth, containerHeight, naturalWidth, naturalHeight, pointX, pointY) ==
    CHOOSE u \in { [ g EXCEPT !.placed = TRUE,
                              !.xPercent = FTimesInt[FDiv[g.imageX, g.renderedWidth], 100],
                              !.yPercent = FTimesInt[FDiv[g.imageY, g.renderedHeight], 100] ] :
                   g \in { Placed[containerWidth, containerHeight, pointX, pointY,
                                  Rendered[containerWidth, containerHeight,
                                           FDiv[FromInt[naturalWidth], FromInt[naturalHeight]],
                                           FDiv[FromInt[containerWidth], FromInt[containerHeight]]]] } } : TRUE

\* A mapper that fits the other side of the image to the container.
MapToImageOtherSide(containerWidth, containerHeight, naturalWidth, naturalHeight, pointX, pointY) ==
    CHOOSE u \in { Placed[containerWidth, containerHeight, pointX, pointY,
                          IF FLess[FDiv[FromInt[containerWidth], FromInt[containerHeight]], ratio]
                          THEN [ wider |-> TRUE,
                                 renderedWidth |-> FTimesInt[ratio, containerHeight],
                                 renderedHeight |-> FromInt[containerHeight] ]
                          ELSE [ wider |-> FALSE,
                                 renderedWidth |-> FromInt[containerWidth],
                                 renderedHeight |-> FDiv[FromInt[containerWidth], ratio] ]] :
                   ratio \in { FDiv[FromInt[naturalWidth], FromInt[naturalHeight]] } } : TRUE

MapToImage(containerWidth, containerHeight, naturalWidth, naturalHeight, pointX, pointY) ==
    Placed[containerWidth, containerHeight, pointX, pointY,
           Rendered[containerWidth, containerHeight,
                    FDiv[FromInt[naturalWidth], FromInt[naturalHeight]],
                    FDiv[FromInt[containerWidth], FromInt[containerHeight]]]]

\* ----------------------------------------------------- products and scene
\* The promises of products that left the list: their ids never come back,
\* since the clock only goes forward.
Removed == ProductId(0)
Orphaned(pending) == IF pending = {} THEN {} ELSE {Removed}

\* handleAddProduct(file) up to its await, run when Date.now() returns `now`:
\* the product's id is the clock reading; the product is appended and
\* selected, without a silhouette, its file is stored under the id (Map.set
\* replaces an entry of the same key), and generateProductSilhouette(file) is
\* awaited.
handleAddProductAt(now) ==
    \E id \in {now} :
      /\ error' = NoError
      /\ products' = Append(products, id)
      /\ productFiles' = productFiles \cup {id}
      /\ activeProductId' = id
      /\ silhouetteCalls' = silhouetteCalls \cup {id}
      /\ lastOp' = "other"
      /\ UNCHANGED dropVars
      /\ UNCHANGED << dragVars, silhouettes >>
      /\ UNCHANGED << history, flags, isLoading, persistedOrbPosition, sceneDesignPrompt, menuVars, calls, nextFile >>

\* handleAddProduct(file) when the clock has advanced since the last product
\* was added.
handleAddProduct ==
    /\ Len(products) < MaxProducts
    /\ handleAddProductAt(ProductId(Len(products) + 1))

\* The values Date.now() can return when the next product is added: the
\* reading of the last product added, when less than a millisecond has gone
\* by, or a later one.
Latest(ids) == CHOOSE m \in ids : \A n \in ids : n <= m
ClockReadings ==
    IF products = << >> THEN {ProductId(1)}
    ELSE { Latest(Entries(products)), Latest(Entries(products)) + 1 }

\* How an awaited generateProductSilhouette promise settles.
SilhouetteOutcomes == {"ok", "rejected"}

\* A settle whose rejection would reach the outer catch of handleAddProduct.
SettleSilhouetteSetsError(id, outcome) ==
    /\ id \in silhouetteCalls
    /\ silhouetteCalls' = silhouetteCalls \ {id}
    /\ \/ /\ outcome = "ok"
          /\ silhouettes' = silhouettes \cup ({id} \cap Entries(products))
          /\ lastOp' = "other"
          /\ UNCHANGED error
       \/ /\ outcome = "rejected"
          /\ error' = "Could not load the product image."
          /\ lastOp' = "fail_silhouette"
          /\ UNCHANGED silhouettes
    /\ UNCHANGED << productVars, history, flags, isLoading,
                    persistedOrbPosition, sceneDesignPrompt, menuVars, calls,
                    nextFile, dropVars, dragVars >>

\* A settle whose setProducts would map the silhouetteUrl onto every product
\* of the list, without comparing ids.
SettleSilhouetteAttaches(id, outcome) ==
    /\ id \in silhouetteCalls
    /\ silhouetteCalls' = silhouetteCalls \ {id}
    /\ \/ /\ outcome = "ok"
          /\ silhouettes' = silhouettes \cup Entries(products)
          /\ lastOp' = IF id \in Entries(products) THEN "other"
                                                   ELSE "late_silhouette"
       \/ /\ outcome = "rejected"
          /\ lastOp' = "fail_silhouette"
          /\ UNCHANGED silhouettes
    /\ UNCHANGED << productVars, history, flags, isLoading, error,
                    persistedOrbPosition, sceneDesignPrompt, menuVars, calls,
                    nextFile, dropVars, dragVars >>

\* The code of handleAddProduct after its await: the silhouetteUrl is added to
\* the product if it is still in the list; a rejection is only logged.
SettleSilhouette(id, outcome) ==
    /\ id \in silhouetteCalls
    /\ silhouetteCalls' = silhouetteCalls \ {id}
    /\ \/ /\ outcome = "ok"
          /\ silhouettes' = silhouettes \cup ({id} \cap Entries(products))
          /\ lastOp' = IF id \in Entries(products) THEN "other"
                                                   ELSE "late_silhouette"
       \/ /\ outcome = "rejected"
          /\ lastOp' = "fail_silhouette"
          /\ UNCHANGED silhouettes
    /\ UNCHANGED << productVars, history, flags, isLoading, error,
                    persistedOrbPosition, sceneDesignPrompt, menuVars, calls,
                    nextFile, dropVars, dragVars >>

\* A selection that would also hand the newly selected product to the calls in
\* flight.
SelectProductRetargets ==
    \E i \in 1..Len(products) :
      /\ activeProductId' = products[i]
      /\ calls' = [ j \in 1..Len(calls) |->
                      IF calls[j].kind = "place"
                      THEN [ calls[j] EXCEPT !.product = products[i] ]
                      ELSE calls[j] ]
      /\ lastOp' = "other"
      /\ UNCHANGED dropVars
      /\ UNCHANGED << dragVars, silhouetteVars >>
      /\ UNCHANGED << products, productFiles, history, flags, isLoading, error,
                      persistedOrbPosition, sceneDesignPrompt,
                      menuVars, nextFile >>

\* ObjectCard onClick: setActiveProductId(product.id)
SelectProduct ==
    \E i \in 1..Len(products) :
      /\ activeProductId' = products[i]
      /\ lastOp' = "other"
      /\ UNCHANGED dropVars
      /\ UNCHANGED << dragVars, silhouetteVars >>
      /\ UNCHANGED << products, productFiles, history, flags, isLoading, error,
                      persistedOrbPosition, sceneDesignPrompt,
                      menuVars, calls, nextFile >>

\* The scene uploader of the upload screen: onFileSelect={setSceneImage}.
UploadScene ==
    /\ nextFile <= LastNewFile
    /\ sceneImage' = nextFile
    /\ nextFile' = nextFile + 1
    /\ lastOp' = "other"
    /\ UNCHANGED dropVars
    /\ UNCHANGED << dragVars, silhouetteVars >>
    /\ UNCHANGED << productVars, undoHistory, redoHistory, flags, isLoading, error,
                    persistedOrbPosition, sceneDesignPrompt, menuVars,
                    calls >>

\* ------------------------------------------------------- placement request
\* handlePlacementRequest(position, relativePosition)
handlePlacementRequest ==
    \E req \in PlacementRequests :
      \/ /\ isLoading
         /\ lastOp' = "other"
         /\ UNCHANGED dropVars
         /\ UNCHANGED << dragVars, silhouetteVars >>
         /\ UNCHANGED << productVars, history, flags, isLoading, error,
                         persistedOrbPosition, sceneDesignPrompt,
                         menuVars, calls, nextFile >>
      \/ /\ ~isLoading
         /\ placementContextMenu' = {req}
         /\ persistedOrbPosition' = {[x |-> req.containerX, y |-> req.containerY]}
         /\ lastOp' = "other"
         /\ UNCHANGED dropVars
         /\ UNCHANGED << dragVars, silhouetteVars >>
         /\ UNCHANGED << productVars, history, flags, isLoading, error, sceneDesignPrompt, surfaceModificationState, calls, nextFile >>

closeContextMenu ==
    /\ placementContextMenu' = {}
    /\ persistedOrbPosition' = {}
    /\ lastOp' = "other"
    /\ UNCHANGED dropVars
    /\ UNCHANGED << dragVars, silhouetteVars >>
    /\ UNCHANGED << productVars, history, flags, isLoading, error, sceneDesignPrompt, surfaceModificationState, calls, nextFile >>

\* ------------------------------------------------------------- touch drag
\* Where the drop zone's getBoundingClientRect() puts its top left corner, and
\* where a product card is touched, in client coordinates.
ZoneOrigin == << 40, 120 >>
CardPoint == << 20, 300 >>

\* The client coordinates of the container point p.
ClientPoint(p) == [ x |-> p[1] + ZoneOrigin[1], y |-> p[2] + ZoneOrigin[2] ]

\* Container points a dragged touch or a dragged card moves over, and the
\* points where it is released: those and the centre of the drop zone.
MovePoints == { << 0, 0 >> } \cup ScenarioPoints
DragPoints(l) ==
    MovePoints \cup { << l.containerWidth \div 2, l.containerHeight \div 2 >> }

\* handleTouchStart without its early return.
handleTouchStartUnguarded ==
    /\ isTouchDragging' = TRUE
    /\ touchGhostPosition' = { [ x |-> CardPoint[1], y |-> CardPoint[2] ] }
    /\ bodyOverflow' = "hidden"
    /\ lastOp' = "other"
    /\ UNCHANGED << productVars, history, flags, isLoading, error,
                    persistedOrbPosition, sceneDesignPrompt, menuVars,
                    calls, nextFile, dropVars, isHoveringDropZone,
                    touchOrbPosition, nativeDrag, silhouetteVars >>

\* handleTouchStart(e) on a product card, with the effect that follows the
\* state change: the page stops scrolling while isTouchDragging.
handleTouchStart ==
    \/ /\ ~HasActiveProduct \/ placementContextMenu # {}
       /\ lastOp' = "drag_ignored"
       /\ UNCHANGED << productVars, history, flags, isLoading, error,
                       persistedOrbPosition, sceneDesignPrompt, menuVars,
                       calls, nextFile, dropVars, dragVars, silhouetteVars >>
    \/ /\ HasActiveProduct
       /\ placementContextMenu = {}
       /\ isTouchDragging' = TRUE
       /\ touchGhostPosition' = { [ x |-> CardPoint[1], y |-> CardPoint[2] ] }
       /\ bodyOverflow' = "hidden"
       /\ lastOp' = "other"
       /\ UNCHANGED << productVars, history, flags, isLoading, error,
                       persistedOrbPosition, sceneDesignPrompt, menuVars,
                       calls, nextFile, dropVars, isHoveringDropZone,
                       touchOrbPosition, nativeDrag, silhouetteVars >>

\* handleTouchMove(e): the touch is over the drop zone, at the container point
\* p, or elsewhere on the page.
handleTouchMove ==
    /\ \/ /\ ~isTouchDragging
          /\ UNCHANGED touchVars
       \/ /\ isTouchDragging
          /\ error = NoError
          /\ \E p \in MovePoints :
               /\ touchGhostPosition' = { ClientPoint(p) }
               /\ touchOrbPosition' = { [ x |-> p[1], y |-> p[2] ] }
               /\ isHoveringDropZone' = TRUE
          /\ UNCHANGED isTouchDragging
       \/ /\ isTouchDragging
          /\ touchGhostPosition' = { [ x |-> CardPoint[1], y |-> CardPoint[2] ] }
          /\ isHoveringDropZone' = FALSE
          /\ touchOrbPosition' = {}
          /\ UNCHANGED isTouchDragging
    /\ lastOp' = "other"
    /\ UNCHANGED << productVars, history, flags, isLoading, error,
                    persistedOrbPosition, sceneDesignPrompt, menuVars, calls,
                    nextFile, dropVars, bodyOverflow, nativeDrag,
                    silhouetteVars >>

\* A request raised without the bounds check of lines 795-797.
RaisePlacementUnchecked(p, drop) ==
    IF ~isLoading
    THEN /\ placementContextMenu' =
              { [ containerX |-> p[1], containerY |-> p[2],
                  relativeX |-> drop.xPercent,
                  relativeY |-> drop.yPercent ] }
         /\ persistedOrbPosition' = { [ x |-> p[1], y |-> p[2] ] }
    ELSE UNCHANGED << placementContextMenu, persistedOrbPosition >>

\* handlePlacementRequest without its `if (isLoading) return`.
RaisePlacementWhileBusy(p, drop) ==
    IF drop.placed
    THEN /\ placementContextMenu' =
              { [ containerX |-> p[1], containerY |-> p[2],
                  relativeX |-> drop.xPercent,
                  relativeY |-> drop.yPercent ] }
         /\ persistedOrbPosition' = { [ x |-> p[1], y |-> p[2] ] }
    ELSE UNCHANGED << placementContextMenu, persistedOrbPosition >>

\* What handlePlacementRequest does with the drop an adapter resolved at the
\* container point p: a point on the image opens the menu and sets the marker,
\* unless the system is busy.
RaisePlacement(p, drop) ==
    IF drop.placed /\ ~isLoading
    THEN /\ placementContextMenu' =
              { [ containerX |-> p[1], containerY |-> p[2],
                  relativeX |-> drop.xPercent,
                  relativeY |-> drop.yPercent ] }
         /\ persistedOrbPosition' = { [ x |-> p[1], y |-> p[2] ] }
    ELSE UNCHANGED << placementContextMenu, persistedOrbPosition >>

\* A touch end that would leave the orb and the hover flag of the drop zone.
ClearTouchDragOnly ==
    /\ isTouchDragging' = FALSE
    /\ touchGhostPosition' = {}
    /\ bodyOverflow' = "auto"
    /\ UNCHANGED << isHoveringDropZone, touchOrbPosition >>

\* The last four statements of handleTouchEnd, and the cleanup of the effect
\* that runs when isTouchDragging changes.
ClearTouchDrag ==
    /\ isTouchDragging' = FALSE
    /\ touchGhostPosition' = {}
    /\ isHoveringDropZone' = FALSE
    /\ touchOrbPosition' = {}
    /\ bodyOverflow' = "auto"

\* handleTouchEnd(e) for a touch lifted over the drop zone at the container
\* point p: the mapping is computed and a point on the image raises the
\* placement request.
handleTouchEndAt(p) ==
    \/ /\ ~isTouchDragging
       /\ lastOp' = "other"
       /\ UNCHANGED << productVars, history, flags, isLoading, error,
                       persistedOrbPosition, sceneDesignPrompt, menuVars,
                       calls, nextFile, dropVars, dragVars, silhouetteVars >>
    \/ /\ isTouchDragging
       /\ sceneImage # NoFile
       /\ error = NoError
       /\ \E drop \in { MapToImage(sceneLayout.containerWidth,
                                    sceneLayout.containerHeight,
                                    sceneLayout.naturalWidth,
                                    sceneLayout.naturalHeight, p[1], p[2]) } :
            /\ lastDrop' = { [ dropX |-> p[1], dropY |-> p[2],
                               mapped |-> drop ] }
            /\ RaisePlacement(p, drop)
       /\ ClearTouchDrag
       /\ lastOp' = "drop"
       /\ UNCHANGED << productVars, history, flags, isLoading, error,
                       sceneDesignPrompt, surfaceModificationState, calls,
                       nextFile, layoutVars, nativeDrag, silhouetteVars >>

\* handleTouchEnd(e) for a touch lifted where no drop zone is under it.
handleTouchEndOutside ==
    /\ isTouchDragging
    /\ ClearTouchDrag
    /\ lastOp' = "drop_outside"
    /\ UNCHANGED << productVars, history, flags, isLoading, error,
                    persistedOrbPosition, sceneDesignPrompt, menuVars, calls,
                    nextFile, dropVars, nativeDrag, silhouetteVars >>

\* handleTouchEnd(e), for a touch lifted over one of the points.
handleTouchEndIn(points) ==
    \/ \E p \in points : handleTouchEndAt(p)
    \/ handleTouchEndOutside

handleTouchEnd == handleTouchEndIn(DropPoints(sceneLayout))

\* ------------------------------------------------------------- mouse drag
\* handleDragStart(e) on a product card: the browser's drag session goes on
\* with the card's data transfer configured.
handleDragStart ==
    \/ /\ ~HasActiveProduct \/ placementContextMenu # {}
       /\ lastOp' = "drag_ignored"
       /\ UNCHANGED << productVars, history, flags, isLoading, error,
                       persistedOrbPosition, sceneDesignPrompt, menuVars,
                       calls, nextFile, dropVars, dragVars, silhouetteVars >>
    \/ /\ HasActiveProduct
       /\ placementContextMenu = {}
       /\ nativeDrag' = TRUE
       /\ lastOp' = "other"
       /\ UNCHANGED << productVars, history, flags, isLoading, error,
                       persistedOrbPosition, sceneDesignPrompt, menuVars,
                       calls, nextFile, dropVars, touchVars, bodyOverflow,
                       silhouetteVars >>

\* The scene uploader's props: isDropZone={!!sceneImage && !isLoading}; the
\* callbacks passed as onProductDrop, which App does not pass.
IsDropZone == sceneImage # NoFile /\ ~isLoading
OnProductDrop == {}

\* ImageUploader.handlePlacement(clientX, clientY, currentTarget) for the
\* container point p.
handlePlacement(p) ==
    \/ /\ OnProductDrop = {}
       /\ UNCHANGED << placementContextMenu, persistedOrbPosition >>
    \/ \E onProductDrop \in OnProductDrop :
         \E drop \in { MapToImage(sceneLayout.containerWidth,
                                   sceneLayout.containerHeight,
                                   sceneLayout.naturalWidth,
                                   sceneLayout.naturalHeight, p[1], p[2]) } :
           RaisePlacement(p, drop)

\* ImageUploader.handleDrop(event) for a product card dropped on the scene at
\* the container point p: the card carries no file.
handleDropAt(p) ==
    /\ nativeDrag
    /\ sceneImage # NoFile
    /\ error = NoError
    /\ nativeDrag' = FALSE
    /\ IF IsDropZone /\ OnProductDrop # {}
       THEN handlePlacement(p)
       ELSE UNCHANGED << placementContextMenu, persistedOrbPosition >>
    /\ lastOp' = "other"
    /\ UNCHANGED << productVars, history, flags, isLoading, error,
                    sceneDesignPrompt, surfaceModificationState, calls,
                    nextFile, dropVars, touchVars, bodyOverflow,
                    silhouetteVars >>

handleDrop == \E p \in MovePoints : handleDropAt(p)

\* ImageUploader.handleClick(event) on the scene at the container point p.
handleClickAt(p) ==
    /\ sceneImage # NoFile
    /\ error = NoError
    /\ IF IsDropZone /\ OnProductDrop # {}
       THEN handlePlacement(p)
       ELSE UNCHANGED << placementContextMenu, persistedOrbPosition >>
    /\ lastOp' = "other"
    /\ UNCHANGED << productVars, history, flags, isLoading, error,
                    sceneDesignPrompt, surfaceModificationState, calls,
                    nextFile, dropVars, dragVars, silhouetteVars >>

handleClick == \E p \in MovePoints : handleClickAt(p)

\* The card is released where nothing takes the drop: the browser ends the
\* drag session and no handler runs.
dragend ==
    /\ nativeDrag
    /\ nativeDrag' = FALSE
    /\ lastOp' = "other"
    /\ UNCHANGED << productVars, history, flags, isLoading, error,
                    persistedOrbPosition, sceneDesignPrompt, menuVars, calls,
                    nextFile, dropVars, touchVars, bodyOverflow,
                    silhouetteVars >>

\* A request that would open the modal for the middle of the image, whatever
\* the menu holds.
handleModifySurfaceRequestCentre ==
    \E type \in SurfaceTypes :
      /\ surfaceModificationState' =
           {[type |-> type,
             position |-> [xPercent |-> FromInt[50], yPercent |-> FromInt[50]]]}
      /\ placementContextMenu' = {}
      /\ persistedOrbPosition' = {}
      /\ lastOp' = "other"
      /\ UNCHANGED dropVars
      /\ UNCHANGED << dragVars, silhouetteVars >>
      /\ UNCHANGED << productVars, history, flags, isLoading, error, sceneDesignPrompt, calls, nextFile >>

\* handleModifySurfaceRequest(type)
handleModifySurfaceRequest ==
    \E type \in SurfaceTypes :
      \/ /\ placementContextMenu = {}
         /\ lastOp' = "other"
         /\ UNCHANGED dropVars
         /\ UNCHANGED << dragVars, silhouetteVars >>
         /\ UNCHANGED << productVars, history, flags, isLoading, error,
                         persistedOrbPosition, sceneDesignPrompt,
                         menuVars, calls, nextFile >>
      \/ \E menu \in placementContextMenu :
        /\ surfaceModificationState' =
             {[type |-> type,
               position |-> [xPercent |-> menu.relativeX, yPercent |-> menu.relativeY]]}
        /\ placementContextMenu' = {}
        /\ persistedOrbPosition' = {}
        /\ lastOp' = "other"
        /\ UNCHANGED dropVars
        /\ UNCHANGED << dragVars, silhouetteVars >>
        /\ UNCHANGED << productVars, history, flags, isLoading, error, sceneDesignPrompt, calls, nextFile >>

\* SurfaceModificationModal onClose: setSurfaceModificationState(null)
CloseModal ==
    /\ surfaceModificationState' = {}
    /\ lastOp' = "other"
    /\ UNCHANGED dropVars
    /\ UNCHANGED << dragVars, silhouetteVars >>
    /\ UNCHANGED << productVars, history, flags, isLoading, error,
                    persistedOrbPosition, sceneDesignPrompt,
                    placementContextMenu, calls, nextFile >>

\* The redesign textarea: setSceneDesignPrompt(e.target.value)
SetSceneDesignPrompt ==
    \E text \in Prompts :
      /\ text # sceneDesignPrompt
      /\ sceneDesignPrompt' = text
      /\ lastOp' = "other"
      /\ UNCHANGED dropVars
      /\ UNCHANGED << dragVars, silhouetteVars >>
      /\ UNCHANGED << productVars, history, flags, isLoading, error,
                      persistedOrbPosition, menuVars, calls, nextFile >>

\* ------------------------------------------------------- scene mutations
\* A call that would hand the generator the two percentages in the other
\* order.
StartCallTransposed(kind, position, product) ==
    /\ Len(calls) < MaxCalls
    /\ calls' = Append(calls, [kind |-> kind, previousScene |-> sceneImage,
                               position |-> { [ xPercent |-> q.yPercent,
                                                yPercent |-> q.xPercent ] :
                                              q \in position },
                               product |-> product])
    /\ isLoading' = TRUE
    /\ error' = NoError

\* The first half of a mutation handler, up to its await:
\*   const previousScene = sceneImage; setIsLoading(true); setError(null);
\*   await generator(sceneImage, ...)
\* The call keeps the scene captured for undo until the promise settles, and
\* the arguments the generator was given: the relative position, as a set of
\* at most one, and the product.
StartCallWith(kind, position, product) ==
    /\ Len(calls) < MaxCalls
    /\ calls' = Append(calls, [kind |-> kind, previousScene |-> sceneImage,
                               position |-> position, product |-> product])
    /\ isLoading' = TRUE
    /\ error' = NoError

\* A call of a generator that takes neither a position nor a product.
StartCall(kind) == StartCallWith(kind, {}, NoFile)

\* The code after a successful await and dataURLtoFile, common to the three
\* mutation handlers: the result becomes the scene, the captured scene is pushed
\* on the undo stack (capped), the redo stack is emptied.
Commit(call) ==
    LET h == CommitHist(Hist(sceneImage, undoHistory, redoHistory),
                        call.previousScene, nextFile)
    IN  /\ nextFile <= LastNewFile
        /\ nextFile' = nextFile + 1
        /\ sceneImage' = h.scene
        /\ undoHistory' = h.undo
        /\ redoHistory' = h.redo
        /\ canUndo' = TRUE
        /\ canRedo' = FALSE

\* handlePlaceProductAction without the `!activeProduct` half of its early
\* return: handleProductDrop is called whenever the menu is open.
handlePlaceProductActionUnchecked ==
    \E style \in PlacementStyles :
      \/ /\ placementContextMenu = {}
         /\ lastOp' = "other"
         /\ UNCHANGED dropVars
         /\ UNCHANGED << dragVars, silhouetteVars >>
         /\ UNCHANGED << productVars, history, flags, isLoading, error,
                         persistedOrbPosition, sceneDesignPrompt,
                         menuVars, calls, nextFile >>
      \/ \E menu \in placementContextMenu :
           /\ \/ /\ activeProductId \notin productFiles \/ sceneImage = NoFile
                 /\ error' = ErrSelectProduct
                 /\ lastOp' = "other"
                 /\ UNCHANGED dropVars
                 /\ UNCHANGED << dragVars, silhouetteVars >>
                 /\ UNCHANGED << isLoading, persistedOrbPosition, calls >>
              \/ /\ activeProductId \in productFiles
                 /\ sceneImage # NoFile
                 /\ StartCallWith("place",
                                  { [ xPercent |-> menu.relativeX,
                                      yPercent |-> menu.relativeY ] },
                                  activeProductId)
                 /\ persistedOrbPosition' =
                      {[x |-> menu.containerX, y |-> menu.containerY]}
                 /\ lastOp' = "other"
                 /\ UNCHANGED dropVars
                 /\ UNCHANGED << dragVars, silhouetteVars >>
           /\ placementContextMenu' = {}
           /\ UNCHANGED << productVars, history, flags, sceneDesignPrompt, surfaceModificationState, nextFile >>

\* handlePlaceProductAction(placementStyle), with the handleProductDrop it calls.
handlePlaceProductAction ==
    \E style \in PlacementStyles :
      \/ /\ placementContextMenu = {} \/ ~HasActiveProduct
         /\ lastOp' = "other"
         /\ UNCHANGED dropVars
         /\ UNCHANGED << dragVars, silhouetteVars >>
         /\ UNCHANGED << productVars, history, flags, isLoading, error,
                         persistedOrbPosition, sceneDesignPrompt,
                         menuVars, calls, nextFile >>
      \/ \E menu \in placementContextMenu :
           /\ HasActiveProduct
           /\ \/ /\ activeProductId \notin productFiles \/ sceneImage = NoFile
                 /\ error' = ErrSelectProduct
                 /\ lastOp' = "other"
                 /\ UNCHANGED dropVars
                 /\ UNCHANGED << dragVars, silhouetteVars >>
                 /\ UNCHANGED << isLoading, persistedOrbPosition, calls >>
              \/ /\ activeProductId \in productFiles
                 /\ sceneImage # NoFile
                 /\ StartCallWith("place",
                                  { [ xPercent |-> menu.relativeX,
                                      yPercent |-> menu.relativeY ] },
                                  activeProductId)
                 /\ persistedOrbPosition' =
                      {[x |-> menu.containerX, y |-> menu.containerY]}
                 /\ lastOp' = "other"
                 /\ UNCHANGED dropVars
                 /\ UNCHANGED << dragVars, silhouetteVars >>
           /\ placementContextMenu' = {}
           /\ UNCHANGED << productVars, history, flags, sceneDesignPrompt, surfaceModificationState, nextFile >>

\* handleSceneDesignGeneration()
handleSceneDesignGeneration ==
    \/ /\ sceneImage = NoFile \/ Trim(sceneDesignPrompt) = ""
       /\ error' = ErrDesignInput
       /\ lastOp' = "other"
       /\ UNCHANGED dropVars
       /\ UNCHANGED << dragVars, silhouetteVars >>
       /\ UNCHANGED << productVars, history, flags, isLoading,
                       persistedOrbPosition, sceneDesignPrompt,
                       menuVars, calls, nextFile >>
    \/ /\ sceneImage # NoFile
       /\ Trim(sceneDesignPrompt) # ""
       /\ StartCall("design")
       /\ persistedOrbPosition' = {}
       /\ lastOp' = "other"
       /\ UNCHANGED dropVars
       /\ UNCHANGED << dragVars, silhouetteVars >>
       /\ UNCHANGED << productVars, history, flags, sceneDesignPrompt, menuVars, nextFile >>

\* handleSurfaceModificationSubmit(modificationValue)
handleSurfaceModificationSubmit ==
    \E value \in ModificationValues :
      \/ /\ surfaceModificationState = {} \/ sceneImage = NoFile
         /\ lastOp' = "other"
         /\ UNCHANGED dropVars
         /\ UNCHANGED << dragVars, silhouetteVars >>
         /\ UNCHANGED << productVars, history, flags, isLoading, error,
                         persistedOrbPosition, sceneDesignPrompt,
                         menuVars, calls, nextFile >>
      \/ /\ surfaceModificationState # {}
         /\ sceneImage # NoFile
         /\ surfaceModificationState' = {}
         /\ StartCallWith("surface",
                          { m.position : m \in surfaceModificationState },
                          NoFile)
         /\ persistedOrbPosition' = {}
         /\ lastOp' = "other"
         /\ UNCHANGED dropVars
         /\ UNCHANGED << dragVars, silhouetteVars >>
         /\ UNCHANGED << productVars, history, flags, sceneDesignPrompt, placementContextMenu, nextFile >>

\* Texts typed into the modal's input: empty, blank, and the descriptions.
InputValues == {"", " "} \cup ModificationValues

\* The modal's submit without its test of the trimmed input.
handleSubmitUnchecked(inputValue) == handleSurfaceModificationSubmit

\* SurfaceModificationModal.handleSubmit(e) with inputValue typed: onSubmit is
\* called with the trimmed text unless that is empty.
handleSubmitWith(inputValue) ==
    \/ /\ Trim(inputValue) = ""
       /\ lastOp' = "other"
       /\ UNCHANGED dropVars
       /\ UNCHANGED << dragVars, silhouetteVars >>
       /\ UNCHANGED << productVars, history, flags, isLoading, error,
                       persistedOrbPosition, sceneDesignPrompt,
                       menuVars, calls, nextFile >>
    \/ /\ Trim(inputValue) \in ModificationValues
       /\ handleSurfaceModificationSubmit

handleSubmit == \E inputValue \in InputValues : handleSubmitWith(inputValue)

\* The code of handleProductDrop after its await: try / catch / finally.
SettlePlace(i, outcome) ==
    /\ calls[i].kind = "place"
    /\ calls' = RemoveAt(calls, i)
    /\ isLoading' = FALSE
    /\ persistedOrbPosition' = {}
    /\ \/ /\ outcome = "ok"
          /\ Commit(calls[i])
          /\ lastOp' = "commit_place"
          /\ UNCHANGED dropVars
          /\ UNCHANGED << dragVars, silhouetteVars >>
          /\ UNCHANGED error
       \/ /\ outcome \in {"bad_data_url", "rejected"}
          /\ error' = ErrGenerateImage
          /\ lastOp' = "fail_place"
          /\ UNCHANGED dropVars
          /\ UNCHANGED << dragVars, silhouetteVars >>
          /\ UNCHANGED << history, flags, nextFile >>
    /\ UNCHANGED << productVars, sceneDesignPrompt, menuVars >>

\* The code of handleSceneDesignGeneration after its await.
SettleDesign(i, outcome) ==
    /\ calls[i].kind = "design"
    /\ calls' = RemoveAt(calls, i)
    /\ isLoading' = FALSE
    /\ \/ /\ outcome = "ok"
          /\ Commit(calls[i])
          /\ sceneDesignPrompt' = ""
          /\ lastOp' = "commit_design"
          /\ UNCHANGED dropVars
          /\ UNCHANGED << dragVars, silhouetteVars >>
          /\ UNCHANGED error
       \/ /\ outcome \in {"bad_data_url", "rejected"}
          /\ error' = ErrGenerateDesign
          /\ lastOp' = "fail_design"
          /\ UNCHANGED dropVars
          /\ UNCHANGED << dragVars, silhouetteVars >>
          /\ UNCHANGED << history, flags, nextFile, sceneDesignPrompt >>
    /\ UNCHANGED << productVars, persistedOrbPosition, menuVars >>

\* handleSurfaceModificationSubmit after its await with setIsLoading(false)
\* as the last statement of the try block instead of a finally block.
SettleSurfaceKeepsBusy(i, outcome) ==
    /\ calls[i].kind = "surface"
    /\ calls' = RemoveAt(calls, i)
    /\ \/ /\ outcome = "ok"
          /\ Commit(calls[i])
          /\ isLoading' = FALSE
          /\ lastOp' = "commit_surface"
          /\ UNCHANGED dropVars
          /\ UNCHANGED << dragVars, silhouetteVars >>
          /\ UNCHANGED error
       \/ /\ outcome \in {"bad_data_url", "rejected"}
          /\ error' = ErrModifySurface
          /\ lastOp' = "fail_surface"
          /\ UNCHANGED dropVars
          /\ UNCHANGED << dragVars, silhouetteVars >>
          /\ UNCHANGED << history, flags, nextFile, isLoading >>
    /\ UNCHANGED << productVars, persistedOrbPosition, sceneDesignPrompt, menuVars >>

\* The code of handleSurfaceModificationSubmit after its await.
SettleSurface(i, outcome) ==
    /\ calls[i].kind = "surface"
    /\ calls' = RemoveAt(calls, i)
    /\ isLoading' = FALSE
    /\ \/ /\ outcome = "ok"
          /\ Commit(calls[i])
          /\ lastOp' = "commit_surface"
          /\ UNCHANGED dropVars
          /\ UNCHANGED << dragVars, silhouetteVars >>
          /\ UNCHANGED error
       \/ /\ outcome \in {"bad_data_url", "rejected"}
          /\ error' = ErrModifySurface
          /\ lastOp' = "fail_surface"
          /\ UNCHANGED dropVars
          /\ UNCHANGED << dragVars, silhouetteVars >>
          /\ UNCHANGED << history, flags, nextFile >>
    /\ UNCHANGED << productVars, persistedOrbPosition, sceneDesignPrompt, menuVars >>

\* An awaited generator promise settles and its handler runs to its end.
Settle ==
    \E i \in 1..Len(calls) :
      \E outcome \in Outcomes :
        \/ SettlePlace(i, outcome)
        \/ SettleDesign(i, outcome)
        \/ SettleSurface(i, outcome)

\* ------------------------------------------------------------ undo / redo
\* handleUndo without its early return: on an empty stack pop() yields
\* undefined, the scene and the stacks stay, and the two flags are set anyway.
handleUndoUnguarded ==
    /\ \/ /\ undoHistory = << >>
          /\ lastOp' = "undo_ignored"
          /\ UNCHANGED dropVars
          /\ UNCHANGED << dragVars, silhouetteVars >>
          /\ UNCHANGED history
       \/ /\ undoHistory # << >>
          /\ LET h == UndoHist(Hist(sceneImage, undoHistory, redoHistory))
             IN  /\ sceneImage' = h.scene
                 /\ undoHistory' = h.undo
                 /\ redoHistory' = h.redo
          /\ lastOp' = "undo"
          /\ UNCHANGED dropVars
          /\ UNCHANGED << dragVars, silhouetteVars >>
    /\ canUndo' = (Len(undoHistory') > 0)
    /\ canRedo' = TRUE
    /\ UNCHANGED << productVars, isLoading, error, persistedOrbPosition,
                    sceneDesignPrompt, menuVars, calls, nextFile >>

\* handleUndo()
handleUndo ==
    \/ /\ undoHistory = << >> \/ sceneImage = NoFile
       /\ lastOp' = "undo_ignored"
       /\ UNCHANGED dropVars
       /\ UNCHANGED << dragVars, silhouetteVars >>
       /\ UNCHANGED << productVars, history, flags, isLoading, error,
                       persistedOrbPosition, sceneDesignPrompt,
                       menuVars, calls, nextFile >>
    \/ /\ undoHistory # << >>
       /\ sceneImage # NoFile
       /\ LET h == UndoHist(Hist(sceneImage, undoHistory, redoHistory))
          IN  /\ sceneImage' = h.scene
              /\ undoHistory' = h.undo
              /\ redoHistory' = h.redo
              /\ canUndo' = (Len(h.undo) > 0)
              /\ canRedo' = TRUE
       /\ lastOp' = "undo"
       /\ UNCHANGED dropVars
       /\ UNCHANGED << dragVars, silhouetteVars >>
       /\ UNCHANGED << productVars, isLoading, error, persistedOrbPosition,
                       sceneDesignPrompt, menuVars, calls, nextFile >>

\* handleRedo()
handleRedo ==
    \/ /\ redoHistory = << >> \/ sceneImage = NoFile
       /\ lastOp' = "redo_ignored"
       /\ UNCHANGED dropVars
       /\ UNCHANGED << dragVars, silhouetteVars >>
       /\ UNCHANGED << productVars, history, flags, isLoading, error,
                       persistedOrbPosition, sceneDesignPrompt,
                       menuVars, calls, nextFile >>
    \/ /\ redoHistory # << >>
       /\ sceneImage # NoFile
       /\ LET h == RedoHist(Hist(sceneImage, undoHistory, redoHistory))
          IN  /\ sceneImage' = h.scene
              /\ undoHistory' = h.undo
              /\ redoHistory' = h.redo
              /\ canRedo' = (Len(h.redo) > 0)
              /\ canUndo' = TRUE
       /\ lastOp' = "redo"
       /\ UNCHANGED dropVars
       /\ UNCHANGED << dragVars, silhouetteVars >>
       /\ UNCHANGED << productVars, isLoading, error, persistedOrbPosition,
                       sceneDesignPrompt, menuVars, calls, nextFile >>

\* ------------------------------------------------- reset and scene change
\* handleReset without its setCanUndo(false) and setCanRedo(false).
handleResetKeepsFlags ==
    /\ products' = << >>
    /\ productFiles' = {}
    /\ activeProductId' = NoFile
    /\ sceneImage' = NoFile
    /\ error' = NoError
    /\ isLoading' = FALSE
    /\ persistedOrbPosition' = {}
    /\ sceneDesignPrompt' = ""
    /\ placementContextMenu' = {}
    /\ surfaceModificationState' = {}
    /\ undoHistory' = << >>
    /\ redoHistory' = << >>
    /\ silhouettes' = {}
    /\ silhouetteCalls' = Orphaned(silhouetteCalls)
    /\ lastOp' = "reset"
    /\ UNCHANGED dropVars
    /\ UNCHANGED dragVars
    /\ UNCHANGED << flags, calls, nextFile >>

\* handleReset without its setActiveProductId(null).
handleResetKeepsSelection ==
    /\ products' = << >>
    /\ productFiles' = {}
    /\ sceneImage' = NoFile
    /\ error' = NoError
    /\ isLoading' = FALSE
    /\ persistedOrbPosition' = {}
    /\ sceneDesignPrompt' = ""
    /\ placementContextMenu' = {}
    /\ surfaceModificationState' = {}
    /\ undoHistory' = << >>
    /\ redoHistory' = << >>
    /\ canUndo' = FALSE
    /\ canRedo' = FALSE
    /\ silhouettes' = {}
    /\ silhouetteCalls' = Orphaned(silhouetteCalls)
    /\ lastOp' = "reset"
    /\ UNCHANGED dropVars
    /\ UNCHANGED dragVars
    /\ UNCHANGED << activeProductId, calls, nextFile >>

\* handleReset(): every piece of state back to its initial value.  Promises
\* already awaited stay outstanding.
handleReset ==
    /\ products' = << >>
    /\ productFiles' = {}
    /\ activeProductId' = NoFile
    /\ sceneImage' = NoFile
    /\ error' = NoError
    /\ isLoading' = FALSE
    /\ persistedOrbPosition' = {}
    /\ sceneDesignPrompt' = ""
    /\ placementContextMenu' = {}
    /\ surfaceModificationState' = {}
    /\ undoHistory' = << >>
    /\ redoHistory' = << >>
    /\ canUndo' = FALSE
    /\ canRedo' = FALSE
    /\ silhouettes' = {}
    /\ silhouetteCalls' = Orphaned(silhouetteCalls)
    /\ lastOp' = "reset"
    /\ UNCHANGED dropVars
    /\ UNCHANGED dragVars
    /\ UNCHANGED << calls, nextFile >>

\* handleChangeScene without the two assignments that empty the stack refs.
handleChangeSceneKeepsStacks ==
    /\ sceneImage' = NoFile
    /\ persistedOrbPosition' = {}
    /\ sceneDesignPrompt' = ""
    /\ placementContextMenu' = {}
    /\ surfaceModificationState' = {}
    /\ canUndo' = FALSE
    /\ canRedo' = FALSE
    /\ lastOp' = "change_scene"
    /\ UNCHANGED dropVars
    /\ UNCHANGED << dragVars, silhouetteVars >>
    /\ UNCHANGED << productVars, undoHistory, redoHistory, isLoading, error,
                    calls, nextFile >>

\* handleChangeScene()
handleChangeScene ==
    /\ sceneImage' = NoFile
    /\ persistedOrbPosition' = {}
    /\ sceneDesignPrompt' = ""
    /\ placementContextMenu' = {}
    /\ surfaceModificationState' = {}
    /\ undoHistory' = << >>
    /\ redoHistory' = << >>
    /\ canUndo' = FALSE
    /\ canRedo' = FALSE
    /\ lastOp' = "change_scene"
    /\ UNCHANGED dropVars
    /\ UNCHANGED << dragVars, silhouetteVars >>
    /\ UNCHANGED << productVars, isLoading, error, calls, nextFile >>

\* handleInstantStart() up to its await of the two fetches.
handleInstantStart ==
    /\ Len(calls) < MaxCalls
    /\ calls' = Append(calls, [kind |-> "instant", previousScene |-> NoFile,
                               position |-> {}, product |-> NoFile])
    /\ error' = NoError
    /\ lastOp' = "other"
    /\ UNCHANGED dropVars
    /\ UNCHANGED << dragVars, silhouetteVars >>
    /\ UNCHANGED << productVars, history, flags, isLoading, persistedOrbPosition,
                    sceneDesignPrompt, menuVars, nextFile >>

\* handleInstantStart() after the fetches: history and products are cleared, the
\* default scene is set and handleAddProduct adds and selects the default
\* product and awaits its silhouette; a failed fetch only sets the error.
SettleInstantStart ==
    \E i \in 1..Len(calls) :
      /\ calls[i].kind = "instant"
      /\ calls' = RemoveAt(calls, i)
      /\ \/ \E id \in {ProductId(1)} :
              /\ nextFile <= LastNewFile
              /\ nextFile' = nextFile + 1
              /\ undoHistory' = << >>
              /\ redoHistory' = << >>
              /\ canUndo' = FALSE
              /\ canRedo' = FALSE
              /\ products' = << id >>
              /\ productFiles' = {id}
              /\ activeProductId' = id
              /\ sceneImage' = nextFile
              /\ error' = NoError
              /\ silhouettes' = {}
              /\ silhouetteCalls' = Orphaned(silhouetteCalls) \cup {id}
              /\ lastOp' = "other"
              /\ UNCHANGED dropVars
              /\ UNCHANGED dragVars
         \/ /\ error' = ErrDefaultImages
            /\ lastOp' = "other"
            /\ UNCHANGED dropVars
            /\ UNCHANGED << dragVars, silhouetteVars >>
            /\ UNCHANGED << productVars, history, flags, nextFile >>
      /\ UNCHANGED << isLoading, persistedOrbPosition, sceneDesignPrompt, menuVars >>

\* ------------------------------------------------------ Interior Design tab
\* The state of the Product Placement tab, which the InteriorDesigner
\* component cannot reach.
placementVars ==
    << productVars, history, flags, isLoading, error, persistedOrbPosition,
       sceneDesignPrompt, menuVars, calls, sceneLayout, lastDrop, dragVars,
       silhouetteVars >>

\* InteriorDesigner.handleImageUpload(file)
InteriorDesigner_handleImageUpload ==
    /\ nextFile <= LastNewFile
    /\ interiorDesigner' = [ interiorDesigner EXCEPT !.error = NoError,
                                                     !.resultImageUrl = NoFile,
                                                     !.designPrompt = "",
                                                     !.roomImage = nextFile ]
    /\ nextFile' = nextFile + 1
    /\ lastOp' = "other"
    /\ UNCHANGED placementVars

\* The design textarea: setDesignPrompt(e.target.value)
InteriorDesigner_setDesignPrompt ==
    \E text \in Prompts :
      /\ text # interiorDesigner.designPrompt
      /\ interiorDesigner' = [ interiorDesigner EXCEPT !.designPrompt = text ]
      /\ lastOp' = "other"
      /\ UNCHANGED << placementVars, nextFile >>

\* InteriorDesigner.handleReset()
InteriorDesigner_handleReset ==
    /\ interiorDesigner' = [ interiorDesigner EXCEPT !.roomImage = NoFile,
                                                     !.resultImageUrl = NoFile,
                                                     !.error = NoError,
                                                     !.isLoading = FALSE,
                                                     !.designPrompt = "" ]
    /\ lastOp' = "other"
    /\ UNCHANGED << placementVars, nextFile >>

\* InteriorDesigner.handleGenerate() up to its await: the early return sets
\* the error; otherwise generateInteriorDesign(roomImage, designPrompt) is
\* called.
InteriorDesigner_handleGenerate ==
    /\ \/ /\ \/ interiorDesigner.roomImage = NoFile
             \/ Trim(interiorDesigner.designPrompt) = ""
          /\ interiorDesigner' = [ interiorDesigner EXCEPT !.error = ErrRoomInput ]
       \/ /\ interiorDesigner.roomImage # NoFile
          /\ Trim(interiorDesigner.designPrompt) # ""
          /\ Len(interiorDesigner.calls) < MaxCalls
          /\ interiorDesigner' =
               [ interiorDesigner EXCEPT
                   !.isLoading = TRUE,
                   !.error = NoError,
                   !.calls = Append(@, [ roomImage |-> interiorDesigner.roomImage,
                                         designPrompt |-> interiorDesigner.designPrompt ]) ]
    /\ lastOp' = "other"
    /\ UNCHANGED << placementVars, nextFile >>

\* A settle whose catch block would also drop the result shown.
InteriorDesigner_SettleGenerateDropsResult(i, outcome) ==
    /\ i \in 1..Len(interiorDesigner.calls)
    /\ \/ /\ outcome \in {"ok", "bad_data_url"}
          /\ interiorDesigner.nextUrl <= MaxNewFiles
          /\ interiorDesigner' =
               [ interiorDesigner EXCEPT
                   !.calls = RemoveAt(@, i),
                   !.resultImageUrl = interiorDesigner.nextUrl,
                   !.nextUrl = @ + 1,
                   !.isLoading = FALSE ]
       \/ /\ outcome = "rejected"
          /\ interiorDesigner' =
               [ interiorDesigner EXCEPT
                   !.calls = RemoveAt(@, i),
                   !.resultImageUrl = NoFile,
                   !.error = ErrGenerateDesign,
                   !.isLoading = FALSE ]
    /\ lastOp' = "other"
    /\ UNCHANGED << placementVars, nextFile >>

\* InteriorDesigner.handleGenerate() after its await: the URL the generator
\* resolved with, whatever it is, becomes the result; a rejection sets the
\* error; the finally block clears the loading flag.
InteriorDesigner_SettleGenerate(i, outcome) ==
    /\ i \in 1..Len(interiorDesigner.calls)
    /\ \/ /\ outcome \in {"ok", "bad_data_url"}
          /\ interiorDesigner.nextUrl <= MaxNewFiles
          /\ interiorDesigner' =
               [ interiorDesigner EXCEPT
                   !.calls = RemoveAt(@, i),
                   !.resultImageUrl = interiorDesigner.nextUrl,
                   !.nextUrl = @ + 1,
                   !.isLoading = FALSE ]
       \/ /\ outcome = "rejected"
          /\ interiorDesigner' =
               [ interiorDesigner EXCEPT
                   !.calls = RemoveAt(@, i),
                   !.error = ErrGenerateDesign,
                   !.isLoading = FALSE ]
    /\ lastOp' = "other"
    /\ UNCHANGED << placementVars, nextFile >>

\* ------------------------------------------------------------ specification
\* The handlers that read or write the history, each invoked in any state: what
\* a handler does there is decided by its own code.
Next ==
    \/ UploadScene
    \/ SetSceneDesignPrompt
    \/ handleSceneDesignGeneration
    \/ \E i \in 1..Len(calls) : \E outcome \in Outcomes : SettleDesign(i, outcome)
    \/ handleUndo
    \/ handleRedo
    \/ handleReset
    \/ handleChangeScene

Spec == Init /\ [][Next]_vars

\* A restored session whose undo stack is at its cap, and the handlers that
\* submit a mutation in it, each invoked in any state.
NextSaved ==
    \/ handlePlacementRequest
    \/ handlePlaceProductAction
    \/ handleModifySurfaceRequest
    \/ handleSurfaceModificationSubmit
    \/ SetSceneDesignPrompt
    \/ handleSceneDesignGeneration
    \/ Settle

SpecSaved == InitSaved /\ [][NextSaved]_vars

\* ------------------------------------------------ the rendered controls
\* renderProductPlacementContent shows one of three screens.
ErrorScreen == error # NoError
UploadScreen == ~ErrorScreen /\ (products = << >> \/ sceneImage = NoFile)
MainScreen == ~ErrorScreen /\ products # << >> /\ sceneImage # NoFile

\* A handler runs when the user acts on a control that is rendered and not
\* disabled.  The menu's backdrop and the modal cover the page for the pointer
\* only: the controls under them stay focusable.
NextUI ==
    \/ ~ErrorScreen /\ handleAddProduct
    \/ MainScreen /\ SelectProduct
    \/ UploadScreen /\ UploadScene
    \/ MainScreen /\ HasActiveProduct /\ placementContextMenu = {}
          /\ handlePlacementRequest
    \/ placementContextMenu # {} /\ closeContextMenu
    \/ placementContextMenu # {} /\ HasActiveProduct /\ handlePlaceProductAction
    \/ placementContextMenu # {} /\ handleModifySurfaceRequest
    \/ surfaceModificationState # {} /\ CloseModal
    \/ MainScreen /\ ~isLoading /\ SetSceneDesignPrompt
    \/ MainScreen /\ ~isLoading /\ Trim(sceneDesignPrompt) # ""
          /\ handleSceneDesignGeneration
    \/ surfaceModificationState # {} /\ handleSurfaceModificationSubmit
    \/ Settle
    \/ canUndo /\ ~isLoading /\ handleUndo
    \/ canRedo /\ ~isLoading /\ handleRedo
    \/ (~isLoading \/ ErrorScreen) /\ handleReset
    \/ MainScreen /\ handleChangeScene
    \/ UploadScreen /\ handleInstantStart
    \/ SettleInstantStart
    \/ \E id \in silhouetteCalls : \E outcome \in SilhouetteOutcomes :
         SettleSilhouette(id, outcome)

SpecUI == Init /\ [][NextUI]_vars

\* The controls, with every awaited generator call resolving or rejecting
\* sooner or later.
SpecLive == Init /\ [][NextUI]_vars /\ WF_vars(Settle)

\* The same controls in a session restored after one commit.
SpecShortUI == InitShort /\ [][NextUI]_vars

\* A restored session used through the redesign form and the Undo and Redo
\* buttons as they are rendered: one mutation after the other.
NextSavedUI ==
    \/ MainScreen /\ ~isLoading /\ SetSceneDesignPrompt
    \/ MainScreen /\ ~isLoading /\ Trim(sceneDesignPrompt) # ""
          /\ handleSceneDesignGeneration
    \/ \E i \in 1..Len(calls) : \E outcome \in Outcomes : SettleDesign(i, outcome)
    \/ canUndo /\ ~isLoading /\ handleUndo
    \/ canRedo /\ ~isLoading /\ handleRedo

SpecSavedUI == InitSaved /\ [][NextSavedUI]_vars

\* Touch drops in a restored session, in each layout: a drag starts on a
\* product card, the touch is lifted over the drop zone or elsewhere, and the
\* menu a drop opens is closed again.
NextMapper ==
    \/ MainScreen /\ ~isTouchDragging /\ handleTouchStart
    \/ isTouchDragging /\ handleTouchEnd
    \/ placementContextMenu # {} /\ closeContextMenu

SpecMapper == InitMapper /\ [][NextMapper]_vars

\* Drags in a restored session, one pointer gesture at a time: a touch drag or
\* a mouse drag starts on a product card and ends over the scene or elsewhere,
\* the scene is clicked, and the menu a drop opens is closed or answered with
\* a placement.
NextDrag ==
    \/ MainScreen /\ SelectProduct
    \/ MainScreen /\ ~isTouchDragging /\ ~nativeDrag /\ handleTouchStart
    \/ isTouchDragging /\ handleTouchMove
    \/ isTouchDragging /\ handleTouchEndIn(DragPoints(sceneLayout))
    \/ MainScreen /\ ~isTouchDragging /\ ~nativeDrag /\ handleDragStart
    \/ handleDrop
    \/ dragend
    \/ MainScreen /\ ~isTouchDragging /\ ~nativeDrag /\ handleClick
    \/ placementContextMenu # {} /\ closeContextMenu
    \/ placementContextMenu # {} /\ HasActiveProduct /\ handlePlaceProductAction
    \/ \E i \in 1..Len(calls) : \E outcome \in Outcomes : SettlePlace(i, outcome)

SpecDrag == InitDrag /\ [][NextDrag]_vars

\* The way from a drop to a generator call in a restored session: touch drops,
\* the menu's backdrop and the modal as they are rendered, and the menu's and
\* the modal's choices, each invoked in any state.
NextMenu ==
    \/ MainScreen /\ surfaceModificationState = {} /\ ~isTouchDragging
          /\ handleTouchStart
    \/ isTouchDragging /\ handleTouchEndIn(DragPoints(sceneLayout))
    \/ placementContextMenu # {} /\ closeContextMenu
    \/ handlePlaceProductAction
    \/ handleModifySurfaceRequest
    \/ surfaceModificationState # {} /\ CloseModal
    \/ surfaceModificationState # {} /\ handleSubmit
    \/ Settle

SpecMenu == InitShort /\ [][NextMenu]_vars

\* A session restored with two products: the cards are clicked, drops raise
\* placement requests, the menu is closed or answered with a placement, and
\* the redesign form is used.
NextSelect ==
    \/ MainScreen /\ SelectProduct
    \/ MainScreen /\ HasActiveProduct /\ placementContextMenu = {}
          /\ handlePlacementRequest
    \/ placementContextMenu # {} /\ closeContextMenu
    \/ placementContextMenu # {} /\ HasActiveProduct /\ handlePlaceProductAction
    \/ MainScreen /\ ~isLoading /\ SetSceneDesignPrompt
    \/ MainScreen /\ ~isLoading /\ Trim(sceneDesignPrompt) # ""
          /\ handleSceneDesignGeneration
    \/ Settle

SpecSelect == InitTwoProducts /\ [][NextSelect]_vars

\* A first visit in which products are added and their silhouettes arrive or
\* fail while the scene is uploaded, a product is placed, or everything is
\* reset.
NextProducts ==
    \/ ~ErrorScreen /\ handleAddProduct
    \/ \E id \in silhouetteCalls : \E outcome \in SilhouetteOutcomes :
         SettleSilhouette(id, outcome)
    \/ UploadScreen /\ UploadScene
    \/ MainScreen /\ HasActiveProduct /\ placementContextMenu = {}
          /\ handlePlacementRequest
    \/ placementContextMenu # {} /\ closeContextMenu
    \/ placementContextMenu # {} /\ HasActiveProduct /\ handlePlaceProductAction
    \/ \E i \in 1..Len(calls) : \E outcome \in Outcomes : SettlePlace(i, outcome)
    \/ (~isLoading \/ ErrorScreen) /\ handleReset

SpecProducts == Init /\ [][NextProducts]_vars

\* A first visit in which products are added at any clock reading, selected
\* and placed.
NextClock ==
    \/ ~ErrorScreen /\ Len(products) < MaxListed
          /\ \E now \in ClockReadings : handleAddProductAt(now)
    \/ \E id \in silhouetteCalls : \E outcome \in SilhouetteOutcomes :
         SettleSilhouette(id, outcome)
    \/ ~ErrorScreen /\ SelectProduct
    \/ UploadScreen /\ UploadScene
    \/ MainScreen /\ HasActiveProduct /\ placementContextMenu = {}
          /\ handlePlacementRequest
    \/ placementContextMenu # {} /\ closeContextMenu
    \/ placementContextMenu # {} /\ HasActiveProduct /\ handlePlaceProductAction
    \/ \E i \in 1..Len(calls) : \E outcome \in Outcomes : SettlePlace(i, outcome)
    \/ (~isLoading \/ ErrorScreen) /\ handleReset

SpecClock == Init /\ [][NextClock]_vars

\* The Interior Design tab on a first visit, its handlers each invoked in any
\* state.
NextDesigner ==
    \/ InteriorDesigner_handleImageUpload
    \/ InteriorDesigner_setDesignPrompt
    \/ InteriorDesigner_handleGenerate
    \/ \E i \in 1..Len(interiorDesigner.calls) : \E outcome \in Outcomes :
         InteriorDesigner_SettleGenerate(i, outcome)
    \/ InteriorDesigner_handleReset

SpecDesigner == Init /\ [][NextDesigner]_vars

\* A first visit or a saved session, and the handlers on the way to a submit,
\* each invoked in any state: with or without a product, a scene, an open menu
\* or modal, a typed instruction.
NextSubmit ==
    \/ handlePlacementRequest
    \/ handlePlaceProductAction
    \/ handleModifySurfaceRequest
    \/ handleSubmit
    \/ SetSceneDesignPrompt
    \/ handleSceneDesignGeneration
    \/ Settle

SpecSubmit == InitSubmit /\ [][NextSubmit]_vars

\* ------------------------------------------------------------ properties
\* The step in which the i-th outstanding call resolves with a usable image and
\* its handler commits the result.
Commits(i) ==
    \/ SettlePlace(i, "ok")
    \/ SettleDesign(i, "ok")
    \/ SettleSurface(i, "ok")

\* The step in which the i-th outstanding call fails: the generator rejects, or
\* dataURLtoFile throws on what it returned.
Fails(i) ==
    \E outcome \in Outcomes \ {"ok"} :
      \/ SettlePlace(i, outcome)
      \/ SettleDesign(i, outcome)
      \/ SettleSurface(i, outcome)

\* A step of one of the three submit handlers.
Submits ==
    \/ handlePlaceProductAction
    \/ handleSceneDesignGeneration
    \/ handleSurfaceModificationSubmit

\* C1: when a mutation fails, the current scene is the scene that was current
\* at its submit (the one the call captured), and the failing step leaves both
\* stacks and the two flags as they are.
C1_FailureLeavesPreSubmitScene ==
    [][\A i \in 1..Len(calls) :
         Fails(i) => /\ sceneImage' = calls[i].previousScene
                     /\ UNCHANGED << undoHistory, redoHistory, flags >>]_vars

\* C2: a submit handler invoked while a mutation call is outstanding starts no
\* call and leaves the scene, both stacks and the busy flag as they are.
C2_SubmitWhileInFlightRejected ==
    [][(MutationCalls # {} /\ Submits)
         => (calls' = calls /\ UNCHANGED << history, isLoading >>)]_vars

\* C3: in every reachable state at most one mutation call is outstanding.
C3_OneMutationInFlight == Cardinality(MutationCalls) <= 1

\* C4: the undo stack never holds more than MAX_HISTORY scenes, and a commit
\* made when it holds MAX_HISTORY drops the bottom entry, keeps the others in
\* order and puts the scene that is current before the commit on top.
C4_CommitAtCapPushesCurrentScene ==
    /\ [](Len(undoHistory) <= MAX_HISTORY)
    /\ [][\A i \in 1..Len(calls) :
            (Commits(i) /\ Len(undoHistory) = MAX_HISTORY)
              => undoHistory' = Append(Tail(undoHistory), sceneImage)]_vars

\* C5: every commit, of a placement, a surface modification or a redesign,
\* leaves the redo stack empty and canRedo false.
C5_CommitEmptiesRedo ==
    [][\A i \in 1..Len(calls) :
         Commits(i) => (redoHistory' = << >> /\ canRedo' = FALSE)]_vars

\* C5 witness: a surface modification has just been committed in the session
\* restored with an entry on its redo stack, and it was the first commit since.
C5_CommitOverRedoReached ==
    /\ lastOp = "commit_surface"
    /\ nextFile = FirstNewFile + 1
    /\ undoHistory # << >>
    /\ undoHistory[1] = 1
    /\ redoHistory = << >>

\* C6: when a commit replaces the scene, the entry on top of the undo stack
\* afterwards is the scene that was current immediately before the replacement.
C6_CommitPushesReplacedScene ==
    [][\A i \in 1..Len(calls) :
         Commits(i) => (/\ sceneImage' # sceneImage
                        /\ undoHistory' # << >>
                        /\ undoHistory'[Len(undoHistory')] = sceneImage)]_vars

\* C7: an undo with a non-empty undo stack and a current scene makes the top of
\* the undo stack the current scene, removes it from the undo stack and appends
\* the former current scene to the redo stack; nothing else in them moves.
C7_UndoMovesTop ==
    [][(handleUndo /\ undoHistory # << >> /\ sceneImage # NoFile)
         => (/\ undoHistory = Append(undoHistory', sceneImage')
             /\ redoHistory' = Append(redoHistory, sceneImage))]_vars

\* C7 witness: an undo has just been made that left entries on the undo stack.
C7_UndoReached ==
    lastOp = "undo" /\ undoHistory # << >> /\ redoHistory # << >>

\* C8: after an undo, a redo is possible and gives back the scene and the two
\* stacks from before the undo; after a redo, an undo is possible and gives
\* back the scene and the two stacks from before the redo.
C8_UndoRedoInverse ==
    [][LET before == Hist(sceneImage, undoHistory, redoHistory)
           after == Hist(sceneImage', undoHistory', redoHistory')
       IN  /\ (handleUndo /\ undoHistory # << >> /\ sceneImage # NoFile)
                => (/\ after.redo # << >>
                    /\ after.scene # NoFile
                    /\ RedoHist(after) = before)
           /\ (handleRedo /\ redoHistory # << >> /\ sceneImage # NoFile)
                => (/\ after.undo # << >>
                    /\ after.scene # NoFile
                    /\ UndoHist(after) = before)]_vars

\* C8 witness: a redo has just been made with entries left on both stacks.
C8_RedoReached ==
    lastOp = "redo" /\ undoHistory # << >> /\ redoHistory # << >>

\* C9: once a session has uploaded its scene S0 (the first file), committed two
\* results and then undone until the undo stack is empty, S0 is the current
\* scene and the redo stack holds the second result under the first.
C9_TwoCommitsTwoUndos ==
    (/\ lastOp = "undo"
     /\ undoHistory = << >>
     /\ Len(redoHistory) = 2
     /\ nextFile = FirstNewFile + 3)
      => (/\ sceneImage = FirstNewFile
          /\ redoHistory = << FirstNewFile + 2, FirstNewFile + 1 >>)

\* C10: handleUndo on an empty undo stack, and handleRedo on an empty redo
\* stack, leave the scene, both stacks and canUndo / canRedo as they are.
C10_EmptyStackNoOp ==
    [][((handleUndo /\ undoHistory = << >>) \/ (handleRedo /\ redoHistory = << >>))
         => UNCHANGED << history, flags >>]_vars

\* C10 witness: handleUndo has just returned early on an empty undo stack while
\* a scene is shown and a redo is possible.
C10_IgnoredUndoReached ==
    /\ lastOp = "undo_ignored"
    /\ undoHistory = << >>
    /\ sceneImage # NoFile
    /\ canRedo

\* The files this session has created so far: each upload and each commit
\* takes the next number.
FilesCreated == FirstNewFile..(nextFile - 1)

\* C11: every scene on the undo or the redo stack was the current scene at an
\* earlier moment: a file becomes the current scene in the step that creates
\* it, and after any step both stacks hold only files created before that step.
C11_StackEntriesWereCurrent ==
    [][/\ nextFile' # nextFile
            => (nextFile' = nextFile + 1 /\ sceneImage' = nextFile)
       /\ (Entries(undoHistory') \cup Entries(redoHistory')) \subseteq FilesCreated]_vars

\* C11 witness: a call has just failed while both stacks hold entries.
C11_FailureWithBothStacksReached ==
    lastOp = "fail_design" /\ undoHistory # << >> /\ redoHistory # << >>

\* C12: a step of handleReset or of handleChangeScene leaves both stacks empty
\* and no current scene, with canUndo and canRedo false.
C12_ResetAndChangeSceneEmptyHistory ==
    [][(handleReset \/ handleChangeScene)
         => (/\ sceneImage' = NoFile
             /\ undoHistory' = << >>
             /\ redoHistory' = << >>
             /\ canUndo' = FALSE
             /\ canRedo' = FALSE)]_vars

\* C12 witness: the scene has just been changed in a session that had made two
\* commits, while a call was outstanding.
C12_ChangeSceneAfterCommitsReached ==
    /\ lastOp = "change_scene"
    /\ nextFile = FirstNewFile + 3
    /\ calls # << >>
    /\ sceneImage = NoFile

\* C13: in the step that follows handleChangeScene or handleReset no file that
\* existed before it becomes the current scene or enters a stack, and no call
\* that was outstanding across it commits its result.
C13_SceneChangeInvalidatesForGood ==
    [][(lastOp \in {"change_scene", "reset"})
         => (/\ sceneImage' \notin FilesCreated
             /\ (Entries(undoHistory') \cup Entries(redoHistory'))
                  \cap FilesCreated = {}
             /\ \A i \in 1..Len(calls) : ~Commits(i))]_vars

\* C14: in every reachable state the undo stack, the redo stack and the current
\* scene together hold at most MAX_HISTORY + 1 snapshots.
C14_TotalSnapshotsBounded ==
    Len(undoHistory) + Len(redoHistory) + (IF sceneImage = NoFile THEN 0 ELSE 1)
      <= MAX_HISTORY + 1

\* C14 witness: after a commit made in this session, a redo has just pushed the
\* tenth entry on the undo stack.
C14_RedoFillsUndoStackReached ==
    /\ lastOp = "redo"
    /\ nextFile > FirstNewFile
    /\ Len(undoHistory) = MAX_HISTORY
    /\ sceneImage # NoFile

\* A step after which an entry of the redo stack is gone from its place.
DiscardsRedoEntries ==
    \/ Len(redoHistory') < Len(redoHistory)
    \/ SubSeq(redoHistory', 1, Len(redoHistory)) # redoHistory

\* A step of handleUndo or handleRedo past its early return.
UndoActs == handleUndo /\ undoHistory # << >> /\ sceneImage # NoFile
RedoActs == handleRedo /\ redoHistory # << >> /\ sceneImage # NoFile

\* C15: a commit is the only step that discards redo entries, apart from the
\* redo that moves the top entry to the current scene; an undo appends exactly
\* one entry to the redo stack.
C15_OnlyCommitClearsRedo ==
    [][/\ (DiscardsRedoEntries /\ ~RedoActs)
            => \E i \in 1..Len(calls) : Commits(i)
       /\ RedoActs => (/\ redoHistory' = Pop(redoHistory)
                       /\ sceneImage' = Top(redoHistory))
       /\ UndoActs => redoHistory' = Append(redoHistory, sceneImage)]_vars

\* C15, amended: the redo stack is emptied by a commit, by handleReset, by
\* handleChangeScene and by a successful Instant Start, and by nothing else;
\* a redo only moves the top entry to the current scene and an undo appends
\* exactly one entry.
C15_RedoClearedByCommitResetOrSceneChange ==
    [][/\ (DiscardsRedoEntries /\ ~RedoActs)
            => (/\ redoHistory' = << >>
                /\ \/ \E i \in 1..Len(calls) : Commits(i)
                   \/ handleReset
                   \/ handleChangeScene
                   \/ SettleInstantStart)
       /\ RedoActs => (/\ redoHistory' = Pop(redoHistory)
                       /\ sceneImage' = Top(redoHistory))
       /\ UndoActs => redoHistory' = Append(redoHistory, sceneImage)]_vars

\* C15 witness: an undo has just put a second entry on the redo stack while a
\* call is outstanding.
C15_SecondUndoDuringCallReached ==
    lastOp = "undo" /\ Len(redoHistory) = 2 /\ calls # << >>

\* C16: after three commits, one undo and one new commit (here: the commit of
\* the restored session, two commits of this one, an undo that takes the
\* third committed scene off, and the commit of this session's third file) the
\* redo stack is empty and the undo stack holds exactly the initial scene and
\* the first two committed scenes, in order.
C16_CommitAfterUndoScenario ==
    (/\ lastOp \in {"commit_place", "commit_design", "commit_surface"}
     /\ nextFile = FirstNewFile + 3
     /\ calls = << >>
     /\ Len(undoHistory) = 3
     /\ FirstNewFile + 1 \notin Entries(undoHistory))
      => (/\ redoHistory = << >>
          /\ undoHistory = << 1, 2, FirstNewFile >>)

\* C17: a step of handleUndo or handleRedo taken while a mutation call is
\* outstanding leaves the scene and both stacks as they are.
C17_NoUndoRedoWhileInFlight ==
    [][(MutationCalls # {} /\ (handleUndo \/ handleRedo))
         => UNCHANGED history]_vars

\* --------------------------------------------------- coordinate mapper
Hundred == FromInt[100]

\* The source's bounds check, on the image-local coordinates the mapper
\* computed.
InRenderedRectangle(g) ==
    /\ ~FLess[g.imageX, FZero] /\ ~FLess[g.renderedWidth, g.imageX]
    /\ ~FLess[g.imageY, FZero] /\ ~FLess[g.renderedHeight, g.imageY]

\* 0 <= x <= 100
IsPercentage(x) == ~FLess[x, FZero] /\ ~FLess[Hundred, x]

\* C18: a point whose image-local coordinates lie in the closed rectangle
\* [0, renderedWidth] x [0, renderedHeight] is given percentages within
\* [0, 100], the borders exactly 0 and 100, and raises the request with them;
\* a point outside the rectangle is given no placement: no request is raised.
C18_PercentagesWithinBounds ==
    \A d \in lastDrop :
      /\ d.mapped.placed <=> InRenderedRectangle(d.mapped)
      /\ d.mapped.placed =>
           /\ IsPercentage(d.mapped.xPercent) /\ IsPercentage(d.mapped.yPercent)
           /\ d.mapped.imageX = FZero => d.mapped.xPercent = FZero
           /\ d.mapped.imageY = FZero => d.mapped.yPercent = FZero
           /\ d.mapped.imageX = d.mapped.renderedWidth => d.mapped.xPercent = Hundred
           /\ d.mapped.imageY = d.mapped.renderedHeight => d.mapped.yPercent = Hundred
           /\ \A req \in placementContextMenu :
                /\ req.relativeX = d.mapped.xPercent
                /\ req.relativeY = d.mapped.yPercent
      /\ ~d.mapped.placed => placementContextMenu = {} /\ persistedOrbPosition = {}

\* A drop on the right border of a letterboxed image opened the menu at 100%.
C18_BorderDropReached ==
    \E d \in lastDrop :
      /\ d.mapped.placed
      /\ d.mapped.offsetX # FZero
      /\ d.mapped.xPercent = Hundred
      /\ placementContextMenu # {}

\* naturalWidth / naturalHeight <= containerWidth / containerHeight, in whole
\* numbers.
Narrower(l) ==
    l.naturalWidth * l.containerHeight <= l.containerWidth * l.naturalHeight

ImageAspect(l) == FDiv[FromInt[l.naturalWidth], FromInt[l.naturalHeight]]
Halved(x) == FDiv[x, FromInt[2]]

\* C19: an image not wider than its container is rendered with the container's
\* height and the width height * imageAspect, centred horizontally; a wider one
\* with the container's width and the height width / imageAspect, centred
\* vertically.  In the container 800x400 the image 900x900 is a 400x400 block
\* at offsetX 200, offsetY 0: the point (200, 0) maps to (0%, 0%) and the point
\* (150, 0) is out of bounds.
C19_ContainFit ==
    \A d \in lastDrop :
      /\ Narrower(sceneLayout) =>
           /\ d.mapped.renderedHeight = FromInt[sceneLayout.containerHeight]
           /\ d.mapped.renderedWidth =
                FTimesInt[ImageAspect(sceneLayout), sceneLayout.containerHeight]
           /\ d.mapped.offsetY = FZero
           /\ d.mapped.offsetX =
                Halved(FSub[FromInt[sceneLayout.containerWidth], d.mapped.renderedWidth])
      /\ ~Narrower(sceneLayout) =>
           /\ d.mapped.renderedWidth = FromInt[sceneLayout.containerWidth]
           /\ d.mapped.renderedHeight =
                FDiv[FromInt[sceneLayout.containerWidth], ImageAspect(sceneLayout)]
           /\ d.mapped.offsetX = FZero
           /\ d.mapped.offsetY =
                Halved(FSub[FromInt[sceneLayout.containerHeight], d.mapped.renderedHeight])
      /\ sceneLayout = Layout(800, 400, 900, 900) =>
           /\ d.mapped.renderedWidth = FromInt[400]
           /\ d.mapped.renderedHeight = FromInt[400]
           /\ d.mapped.offsetX = FromInt[200]
           /\ d.mapped.offsetY = FZero
           /\ (d.dropX = 200 /\ d.dropY = 0) =>
                /\ d.mapped.placed
                /\ d.mapped.xPercent = FZero
                /\ d.mapped.yPercent = FZero
           /\ (d.dropX = 150 /\ d.dropY = 0) => ~d.mapped.placed

\* The point (150, 0) was dropped on the 900x900 image in the 800x400 container.
C19_PaddingDropReached ==
    \E d \in lastDrop :
      /\ sceneLayout = Layout(800, 400, 900, 900)
      /\ d.dropX = 150 /\ d.dropY = 0
      /\ ~d.mapped.placed
      /\ placementContextMenu = {}

\* naturalWidth / naturalHeight = containerWidth / containerHeight, in whole
\* numbers.
SameAspect(l) ==
    l.naturalWidth * l.containerHeight = l.containerWidth * l.naturalHeight

\* (coordinate / size) * 100
PercentageOf(coordinate, size) == FTimesInt[FDiv[FromInt[coordinate], FromInt[size]], 100]

\* C20: with an image of the container's aspect ratio there is no
\* letterboxing: both offsets are zero, no point of the container is out of
\* bounds and the percentages are the container-local coordinates divided by
\* the container's size, times 100; in the container 800x450 the point
\* (400, 225) on the image 1600x900 maps to exactly (50%, 50%).
C20_SameAspectNoLetterbox ==
    \A d \in lastDrop :
      SameAspect(sceneLayout) =>
        /\ d.mapped.offsetX = FZero
        /\ d.mapped.offsetY = FZero
        /\ d.mapped.placed
        /\ d.mapped.xPercent = PercentageOf(d.dropX, sceneLayout.containerWidth)
        /\ d.mapped.yPercent = PercentageOf(d.dropY, sceneLayout.containerHeight)
        /\ (sceneLayout = Layout(800, 450, 1600, 900) /\ d.dropX = 400 /\ d.dropY = 225) =>
             (d.mapped.xPercent = FromInt[50] /\ d.mapped.yPercent = FromInt[50])

\* C21: a product card dropped with the mouse on the drop zone raises what the
\* touch adapter raises for the same container point: the same in-bounds
\* verdict and, for a point on the image, the same container point and the
\* same xPercent and yPercent.
C21_AdaptersAgree ==
    [][\A p \in MovePoints :
         (IsDropZone /\ handleDropAt(p))
           => \E drop \in { MapToImage(sceneLayout.containerWidth,
                                        sceneLayout.containerHeight,
                                        sceneLayout.naturalWidth,
                                        sceneLayout.naturalHeight, p[1], p[2]) } :
                RaisePlacement(p, drop)]_vars

\* C22: a touch drag that ends on a point outside the rendered image raises no
\* placement request and no error: the menu stays closed, the marker and the
\* error message are as before, and scene, stacks and busy flag are unchanged.
C22_RejectedDropRaisesNothing ==
    [][(/\ isTouchDragging
        /\ ~isTouchDragging'
        /\ \E d \in lastDrop' : ~d.mapped.placed)
         => /\ placementContextMenu' = {}
            /\ UNCHANGED << persistedOrbPosition, error, history, isLoading,
                            calls, surfaceModificationState >>]_vars

\* A drop in the padding above the image was resolved and nothing is open.
C22_RejectedDropReached ==
    \E d \in lastDrop :
      /\ ~d.mapped.placed
      /\ d.mapped.offsetY # FZero
      /\ ~isTouchDragging
      /\ placementContextMenu = {}
      /\ persistedOrbPosition = {}
      /\ error = NoError

\* The call a step starts, as a set of at most one.
Started == IF Len(calls') = Len(calls) + 1 THEN { calls'[Len(calls')] } ELSE {}

\* The relative position of a menu's request.
Requested(menu) == [ xPercent |-> menu.relativeX, yPercent |-> menu.relativeY ]

\* C23: a drop starts no generator call: it only opens the menu and sets the
\* marker.  A PlaceProduct call is started by the menu's placement choice, for
\* the request the menu holds; a ModifySurface call is started from the modal,
\* for the request of the menu whose choice opened the modal; the menu is
\* opened by a drop only.  Closing the menu starts no call and changes
\* neither scene nor stacks.
C23_CallsFollowMenuChoice ==
    [][/\ (isTouchDragging /\ ~isTouchDragging')
           => /\ Started = {}
              /\ UNCHANGED << history, isLoading, surfaceModificationState >>
       /\ \A call \in Started :
            /\ call.kind = "place"
                 => /\ handlePlaceProductAction
                    /\ \E menu \in placementContextMenu :
                         call.position = { Requested(menu) }
            /\ call.kind = "surface"
                 => /\ handleSubmit
                    /\ call.position =
                         { m.position : m \in surfaceModificationState }
                    /\ surfaceModificationState # {}
       /\ (surfaceModificationState' # {}
              /\ surfaceModificationState' # surfaceModificationState)
           => /\ handleModifySurfaceRequest
              /\ \E menu \in placementContextMenu :
                   \A m \in surfaceModificationState' :
                     m.position = Requested(menu)
       /\ (placementContextMenu' # {}
              /\ placementContextMenu' # placementContextMenu)
           => /\ isTouchDragging /\ ~isTouchDragging'
              /\ \E d \in lastDrop' : \A menu \in placementContextMenu' :
                   /\ d.mapped.placed
                   /\ Requested(menu) = [ xPercent |-> d.mapped.xPercent,
                                           yPercent |-> d.mapped.yPercent ]
       /\ closeContextMenu
           => /\ Started = {}
              /\ UNCHANGED << history, surfaceModificationState >>]_vars

\* A PlaceProduct call is in flight for the point last dropped on.
C23_PlaceCallForDropReached ==
    \E d \in lastDrop : \E i \in 1..Len(calls) :
      /\ calls[i].kind = "place"
      /\ calls[i].position = { [ xPercent |-> d.mapped.xPercent,
                                  yPercent |-> d.mapped.yPercent ] }
      /\ d.dropX = 150
      /\ placementContextMenu = {}
      /\ isLoading

\* What each submit needs: handleProductDrop a selected product with its file
\* and a scene, the modal's submit a scene and a description that is not
\* blank, handleSceneDesignGeneration a scene and an instruction that is not
\* blank.
CanPlaceProduct ==
    HasActiveProduct /\ activeProductId \in productFiles /\ sceneImage # NoFile
CanModifySurface(inputValue) == sceneImage # NoFile /\ Trim(inputValue) # ""
CanRedesignScene == sceneImage # NoFile /\ Trim(sceneDesignPrompt) # ""

\* C24: a submit whose precondition fails starts no generator call and leaves
\* scene, stacks and busy flag unchanged: PlaceProduct without a selected
\* product with its file or without a scene, ModifySurface without a scene or
\* with a blank description, RedesignScene without a scene or with a blank
\* instruction.
C24_RejectedSubmitStartsNothing ==
    [][/\ (handlePlaceProductAction /\ ~CanPlaceProduct)
           => UNCHANGED << calls, history, isLoading >>
       /\ \A inputValue \in InputValues :
            (handleSubmitWith(inputValue) /\ ~CanModifySurface(inputValue))
              => UNCHANGED << calls, history, isLoading >>
       /\ (handleSceneDesignGeneration /\ ~CanRedesignScene)
           => UNCHANGED << calls, history, isLoading >>]_vars

\* A placement was chosen for the selected product before any scene was there
\* and was turned down.
C24_PlacementWithoutSceneReached ==
    /\ error = ErrSelectProduct
    /\ HasActiveProduct
    /\ sceneImage = NoFile
    /\ calls = << >>
    /\ ~isLoading

\* The controls that lead to a submit are rendered: the scene with its drop
\* zone and the redesign form, the open menu or the open modal.
SubmitControls ==
    MainScreen \/ placementContextMenu # {} \/ surfaceModificationState # {}

\* C25: in the state a failed submit leaves, the user can submit again with
\* the scene and the stacks as they are: a control that leads to a submit is
\* rendered, and Start Over is not the only way on.
C25_RetryAfterFailure ==
    lastOp \in {"fail_place", "fail_design", "fail_surface"} => SubmitControls

\* C26: a drag begins only with a selected product and no menu open: with no
\* active product or with the menu open handleTouchStart and handleDragStart
\* leave the drag state, the ghost, the hover flag, the orb and the page's
\* scrolling as they are, and every step that begins a touch drag or a mouse
\* drag starts from a state with an active product and no menu.
C26_DragNeedsProductAndNoMenu ==
    [][/\ ((handleTouchStart \/ handleDragStart)
            /\ (~HasActiveProduct \/ placementContextMenu # {}))
           => UNCHANGED dragVars
       /\ ((~isTouchDragging /\ isTouchDragging')
            \/ (~nativeDrag /\ nativeDrag')
            \/ (touchGhostPosition = {} /\ touchGhostPosition' # {}))
           => (HasActiveProduct /\ placementContextMenu = {})]_vars

\* A product card was touched or dragged while the menu was open, and nothing
\* began.
C26_StartIgnoredUnderMenuReached ==
    /\ lastOp = "drag_ignored"
    /\ placementContextMenu # {}
    /\ HasActiveProduct
    /\ ~isTouchDragging
    /\ ~nativeDrag
    /\ touchGhostPosition = {}

\* C27: the step that ends a touch drag clears isTouchDragging, the ghost's
\* position, the hover flag and the orb's position, wherever the touch was
\* lifted (on the image, in the padding, off the drop zone) and whether or not
\* the system is busy.
C27_TouchEndClearsDrag ==
    [][(isTouchDragging /\ lastOp' \in {"drop", "drop_outside"})
         => /\ ~isTouchDragging'
            /\ touchGhostPosition' = {}
            /\ ~isHoveringDropZone'
            /\ touchOrbPosition' = {}]_vars

\* A touch that had hovered over the drop zone was lifted on the image while
\* the system was busy: no menu, and nothing of the drag is left.
C27_BusyDropClearedReached ==
    \E d \in lastDrop :
      /\ lastOp = "drop"
      /\ d.mapped.placed
      /\ isLoading
      /\ placementContextMenu = {}
      /\ ~isTouchDragging
      /\ touchGhostPosition = {}
      /\ ~isHoveringDropZone
      /\ touchOrbPosition = {}

\* C28: the page's scrolling is suppressed exactly while a drag, by touch or
\* by mouse, is in progress.
C28_ScrollSuppressedWhileDragging ==
    (isTouchDragging \/ nativeDrag) <=> (bodyOverflow = "hidden")

\* C29: selecting a product while a mutation is in flight leaves the scene,
\* both stacks, the busy flag and the calls in flight, with the product and
\* the scene each one captured, as they are; and a placement whose captured
\* product is no longer the selected one still commits: its result becomes
\* the scene and the scene it captured is pushed on the undo stack.
C29_SelectionLeavesCallInFlight ==
    [][/\ (SelectProduct /\ MutationCalls # {})
           => UNCHANGED << history, isLoading, calls >>
       /\ \A i \in 1..Len(calls) :
            (SettlePlace(i, "ok") /\ calls[i].product # activeProductId)
              => /\ sceneImage' = nextFile
                 /\ undoHistory' = PushUndo(undoHistory, calls[i].previousScene)
                 /\ redoHistory' = << >>
                 /\ UNCHANGED activeProductId]_vars

\* A placement of product 1 is in flight and product 2 has been selected.
C29_OtherProductSelectedInFlightReached ==
    \E i \in 1..Len(calls) :
      /\ calls[i].kind = "place"
      /\ calls[i].product = 1
      /\ activeProductId = 2
      /\ calls[i].previousScene = sceneImage
      /\ isLoading

\* C30: when generateProductSilhouette fails the product stays in the list,
\* with its file and without a silhouette, the selection stays, no error
\* message is set, and scene, both stacks, busy flag and the calls in flight
\* are unchanged.
C30_SilhouetteFailureSwallowed ==
    [][\A id \in silhouetteCalls :
         SettleSilhouette(id, "rejected")
           => /\ UNCHANGED << products, productFiles, activeProductId,
                              silhouettes, error, history, flags, isLoading,
                              calls >>
              /\ id \notin silhouettes']_vars

\* The silhouette of the selected product failed while its placement was in
\* flight.
C30_FailedSilhouetteReached ==
    /\ lastOp = "fail_silhouette"
    /\ HasActiveProduct
    /\ activeProductId \notin silhouettes
    /\ activeProductId \notin silhouetteCalls
    /\ error = NoError
    /\ sceneImage # NoFile
    /\ isLoading

\* C31: no two products of the product list have the same id, also when two
\* products are added at the same clock reading.
C31_ProductIdsUnique ==
    \A i, j \in 1..Len(products) : products[i] = products[j] => i = j

\* C32: the busy flag is set in every state in which a call of one of the
\* three scene-mutation generators is outstanding.
C32_BusyWhileCallOutstanding ==
    (\E i \in 1..Len(calls) : calls[i].kind \in {"place", "design", "surface"})
      => isLoading

\* C33: when the awaited calls settle, every state with the busy flag set is
\* followed by a state with the flag cleared, and the flag is cleared by the
\* settle of a mutation whether it resolved or rejected.
C33_BusyEventuallyReleased ==
    /\ isLoading ~> ~isLoading
    /\ [][\A i \in 1..Len(calls) : \A outcome \in Outcomes :
            (SettlePlace(i, outcome) \/ SettleDesign(i, outcome)
               \/ SettleSurface(i, outcome)) => ~isLoading']_vars

\* A surface modification was rejected and the busy flag is cleared with no
\* call left in flight.
C33_ReleasedAfterFailureReached ==
    /\ lastOp = "fail_surface"
    /\ error = ErrModifySurface
    /\ calls = << >>
    /\ ~isLoading

\* C34: canUndo is true exactly when the undo stack is non-empty and canRedo
\* is true exactly when the redo stack is non-empty.
C34_FlagsTrackStacks ==
    /\ canUndo <=> (undoHistory # << >>)
    /\ canRedo <=> (redoHistory # << >>)

\* A mutation submitted before a reset has completed after it: the product
\* list is empty, the result is the scene, and the scene captured at submit
\* is the only entry of the undo stack.
C34_CommitAfterResetReached ==
    /\ lastOp \in {"commit_place", "commit_design", "commit_surface"}
    /\ products = << >>
    /\ sceneImage # NoFile
    /\ Len(undoHistory) = 1
    /\ canUndo
    /\ ~canRedo

\* C35: a drop made while the busy flag is set, by touch or by mouse, opens
\* no placement menu and sets no marker: menu, marker, and everything but the
\* state of the drag itself stay as they were.
C35_BusyDropChangesNothing ==
    [][(isLoading /\ (\/ isTouchDragging /\ ~isTouchDragging'
                      \/ nativeDrag /\ ~nativeDrag'))
         => UNCHANGED << placementContextMenu, persistedOrbPosition,
                         surfaceModificationState, productVars, history,
                         flags, isLoading, error, sceneDesignPrompt,
                         calls >>]_vars

\* With a placement call in flight a touch was lifted on the image: the drop
\* mapped to a position of the image, there is no menu, and the marker is
\* still the one of the request being generated, elsewhere on the image.
C35_BusyDropOnImageReached ==
    \E d \in lastDrop :
      /\ lastOp = "drop"
      /\ d.mapped.placed
      /\ isLoading
      /\ calls # << >>
      /\ placementContextMenu = {}
      /\ \E orb \in persistedOrbPosition : << orb.x, orb.y >> # << d.dropX, d.dropY >>

\* C36: the relative position a PlaceProduct or ModifySurface call is started
\* with is the pair of percentages computed for the drop that opened the menu,
\* whatever steps lie between the drop and the call, and the position of a
\* call in flight never changes.
C36_CallPositionIsDropPosition ==
    [][/\ \A call \in Started :
            call.kind \in {"place", "surface"}
              => \E d \in lastDrop :
                   /\ d.mapped.placed
                   /\ call.position = { [ xPercent |-> d.mapped.xPercent,
                                           yPercent |-> d.mapped.yPercent ] }
       /\ { call.position : call \in Entries(calls') }
             \subseteq { call.position : call \in Entries(calls) \cup Started }]_vars

\* A ModifySurface call is in flight for the point last dropped on, off the
\* centre of the image.
C36_SurfaceCallForDropReached ==
    \E d \in lastDrop : \E i \in 1..Len(calls) :
      /\ calls[i].kind = "surface"
      /\ calls[i].position = { [ xPercent |-> d.mapped.xPercent,
                                  yPercent |-> d.mapped.yPercent ] }
      /\ d.mapped.xPercent # d.mapped.yPercent
      /\ surfaceModificationState = {}
      /\ isLoading

\* C37: chosen with no product selected, a place action of the menu starts no
\* call and leaves the menu, the marker, the modal, the error, the busy flag,
\* the scene and the stacks as they are; recolor and retexture, with or
\* without a selected product, close the menu and open the modal with the
\* type chosen and the relative position of the menu's request, and start no
\* call themselves.
C37_PlaceNeedsProductSurfaceDoesNot ==
    [][/\ (~HasActiveProduct /\ handlePlaceProductAction)
           => /\ Started = {}
              /\ UNCHANGED << menuVars, persistedOrbPosition, calls, isLoading,
                              error, history, flags, productVars >>
       /\ (placementContextMenu # {} /\ handleModifySurfaceRequest)
           => /\ Started = {}
              /\ placementContextMenu' = {}
              /\ \E menu \in placementContextMenu : \E type \in SurfaceTypes :
                   surfaceModificationState' =
                     { [ type |-> type, position |-> Requested(menu) ] }
              /\ UNCHANGED << calls, isLoading, error, history, flags,
                              productVars >>]_vars

\* With no product selected the modal was opened from the menu for the
\* position of the request.
C37_ModalWithoutProductReached ==
    /\ ~HasActiveProduct
    /\ activeProductId = NoFile
    /\ placementContextMenu = {}
    /\ \E m \in surfaceModificationState : \E req \in PlacementRequests :
         m.position = [ xPercent |-> req.relativeX, yPercent |-> req.relativeY ]
    /\ sceneImage # NoFile

\* C38: in every state the selected product id is absent or the id of a
\* product of the list; adding a product appends it and selects it; reset
\* empties the list and clears the selection.
C38_SelectionInList ==
    /\ [](activeProductId = NoFile \/ HasActiveProduct)
    /\ [][/\ handleAddProduct
              => /\ Len(products') = Len(products) + 1
                 /\ activeProductId' = products'[Len(products')]
          /\ handleReset
              => /\ products' = << >>
                 /\ activeProductId' = NoFile]_vars

\* After a reset or an Instant Start that left a silhouette promise behind, a
\* product was added again and is the selected one.
C38_AddedAfterResetReached ==
    /\ Removed \in silhouetteCalls
    /\ products # << >>
    /\ activeProductId = products[Len(products)]
    /\ activeProductId \in productFiles

C40_DesignerFailureUploadAndGuard ==
    [][/\ \A i \in 1..Len(interiorDesigner.calls) :
            InteriorDesigner_SettleGenerate(i, "rejected")
              => /\ interiorDesigner'.roomImage = interiorDesigner.roomImage
                 /\ interiorDesigner'.resultImageUrl = interiorDesigner.resultImageUrl
                 /\ interiorDesigner'.error = ErrGenerateDesign
                 /\ ~interiorDesigner'.isLoading
       /\ (/\ \/ interiorDesigner.roomImage = NoFile
               \/ Trim(interiorDesigner.designPrompt) = ""
            /\ InteriorDesigner_handleGenerate)
           => /\ interiorDesigner'.calls = interiorDesigner.calls
              /\ interiorDesigner'.isLoading = interiorDesigner.isLoading
              /\ interiorDesigner'.resultImageUrl = interiorDesigner.resultImageUrl
       /\ InteriorDesigner_handleImageUpload
           => /\ interiorDesigner'.roomImage = nextFile
              /\ interiorDesigner'.resultImageUrl = NoFile]_vars

\* A generation has failed after an earlier one had succeeded: the earlier
\* result is still shown, with the error, and nothing is loading.
C40_FailureAfterResultReached ==
    /\ interiorDesigner.error = ErrGenerateDesign
    /\ interiorDesigner.resultImageUrl # NoFile
    /\ interiorDesigner.roomImage # NoFile
    /\ interiorDesigner.calls = << >>
    /\ ~interiorDesigner.isLoading

====
